---- MODULE Spec2Model ----
(***************************************************************************)
(* NL2SQL workflow of hellices/chat-maf (backend/agents/nl2sql_workflow).  *)
(*                                                                         *)
(* The model follows the reflection-style pipeline that                    *)
(* executors/__init__.py exports:                                          *)
(*   initialize_context -> schema_understanding -> sql_generation          *)
(*   -> sql_reviewer -> { sql_generation | handle_success | output }       *)
(*   handle_success -> { evaluate_sql_reasoning ||                         *)
(*                       generate_natural_language_response }              *)
(*   -> aggregate_success_results -> output                                *)
(*                                                                         *)
(* The LLM and the query executor are external capabilities: every call    *)
(* draws its response from a small set of response shapes.                 *)
(* Strings that the code only inspects for a keyword are sequences of      *)
(* tokens; "text contains keyword" is "keyword is one of the tokens".      *)
(***************************************************************************)
EXTENDS Integers, Sequences, FiniteSets, TLC

VARIABLES input, pending, shared, schemas, fanin, outputs, failed, hist,
          m_schema_file, lru, _M_SCHEMA_CACHE, heap, loader, pc,
          retry_ctx, ret,
          wf_stream, pos, sse, spc, wstate, spos, seq_outputs, seq_log,
          rl_now, rl_limiter, rl_allowed, rl_ret

\* State of one workflow run.
wfvars == <<input, pending, shared, schemas, fanin, outputs, failed, hist>>

\* State of the process-wide schema store (database/schema_cache.py and the
\* module global of workflow.py) and of the runs that use it.
storevars == <<m_schema_file, lru, _M_SCHEMA_CACHE, heap, loader, pc>>

\* A RetryContext object and the value its last method call returned.
retryvars == <<retry_ctx, ret>>

\* The streaming endpoint: the events of the workflow's run_stream, how
\* many of them were consumed, the SSE chunks sent, and the generator's
\* position.
streamvars == <<wf_stream, pos, sse, spc>>

\* The sequential workflow of workflow.py: its WorkflowState, the position
\* of the run, the outputs yielded and a log of the calls made.
seqvars == <<wstate, spos, seq_outputs, seq_log>>

\* The rate limiter of middleware/rate_limiter.py: the clock, the RateLimiter
\* object, every timestamp at which a request was allowed, and what the last
\* is_allowed call returned.
limvars == <<rl_now, rl_limiter, rl_allowed, rl_ret>>

vars == <<wfvars, storevars, retryvars, streamvars, seqvars, limvars>>

(***************************************************************************)
(* Null markers (Python None), one per field type.                         *)
(***************************************************************************)
NoStr == "<None>"
NoNum == -1
NoRows == [rows |-> -1, cols |-> -1]
NoTables == <<NoStr>>
NoText == <<NoStr>>
NoId == 0

(***************************************************************************)
(* Bounds of the explored inputs.                                          *)
(***************************************************************************)
MaxRows == 1

(***************************************************************************)
(* Program constants.                                                      *)
(***************************************************************************)
MAX_SYNTAX_RETRIES == 2
MAX_SEMANTIC_RETRIES == 2
CONFIDENCE_THRESHOLD == 50
FALLBACK_CONFIDENCE == 50

(***************************************************************************)
(* The catalog (m_schema.json): database -> table names, and the databases *)
(* for which SpiderDatabase finds a .sqlite file.                          *)
(***************************************************************************)
M_SCHEMA == [db \in {"concert_singer", "pets"} |->
               IF db = "concert_singer" THEN <<"singer", "concert">>
                                        ELSE <<"pet">>]

SpiderDatabases == DOMAIN M_SCHEMA

Questions == {"How many singers do we have?"}

Truthy(s) == s # NoStr /\ s # ""

TruthyList(t) == t # NoTables /\ t # <<>>

Contains(text, kw) == \E i \in 1..Len(text) : text[i] = kw

ContainsAny(text, kws) == \E kw \in kws : Contains(text, kw)

(***************************************************************************)
(* models.py                                                               *)
(***************************************************************************)
RetryContext == [syntax_retry_count |-> 0, semantic_retry_count |-> 0,
                 max_syntax_retries |-> 2, max_semantic_retries |-> 2]

can_retry_syntax_mut(rc) == rc.syntax_retry_count <= rc.max_syntax_retries

can_retry_syntax(rc) == rc.syntax_retry_count < rc.max_syntax_retries

can_retry_semantic(rc) == rc.semantic_retry_count < rc.max_semantic_retries

increment_syntax(rc) ==
  [rc EXCEPT !.syntax_retry_count = rc.syntax_retry_count + 1]

increment_semantic(rc) ==
  [rc EXCEPT !.semantic_retry_count = rc.semantic_retry_count + 1]

\* WorkflowMessage with the field defaults of the pydantic model.
WorkflowMessage(question, status, rc) ==
  [question |-> question, database |-> "", sql |-> NoStr, status |-> status,
   result_rows |-> NoRows, error_message |-> NoText, retry_context |-> rc,
   confidence |-> NoNum, reasoning |-> NoStr, selected_tables |-> NoTables,
   schema_id |-> NoId, row_count |-> 0]

NoSQLResponse == [sql |-> NoStr, reasoning |-> NoStr, confidence |-> NoNum]

\* The requests explored: nothing pre-selected, a database, a database with
\* tables, and a database the catalog does not know.
NL2SQLInputs ==
  [question : Questions,
   selected_database : {NoStr, "concert_singer", "ghost_db"},
   selected_tables : {NoTables},
   return_natural_language : BOOLEAN,
   catalog_exists : BOOLEAN]
  \cup [question : Questions,
         selected_database : {"concert_singer"},
         selected_tables : {<<"singer">>},
         return_natural_language : BOOLEAN,
         catalog_exists : BOOLEAN]

NoEvaluation == [is_null |-> TRUE, is_correct |-> "None", confidence |-> NoNum,
                 explanation |-> NoStr]

Evaluation(is_correct, confidence, explanation) ==
  [is_null |-> FALSE, is_correct |-> is_correct, confidence |-> confidence,
   explanation |-> explanation]

NL2SQLOutput(sql, database, execution_result, nl, evaluation, by) ==
  [sql |-> sql, database |-> database, execution_result |-> execution_result,
   natural_language_response |-> nl, reasoning_evaluation |-> evaluation,
   emitted_by |-> by]

(***************************************************************************)
(* The process-wide schema store: database/schema_cache.py (lru_cache of   *)
(* load_m_schema) and the module global _M_SCHEMA_CACHE of workflow.py.    *)
(* Objects returned by json.load are numbered in the order of creation;    *)
(* heap[id] is the file version the object was read from.                  *)
(***************************************************************************)
NoObj == 0

MaxRuns == 2

MaxObjects == 3

MaxVersions == 2

Runs == 1..MaxRuns

NoCall == [fn |-> "none", run |-> 0, returned |-> NoObj, raised |-> FALSE]

RunStart == [at |-> "start", via |-> "none", m_schema |-> NoObj]

SchemaStoreCold ==
  /\ lru = NoObj
  /\ _M_SCHEMA_CACHE = NoObj
  /\ heap = <<>>
  /\ loader = [file_reads |-> 0, lru_fills |-> 0, global_fills |-> 0,
               last |-> NoCall, last_global |-> NoCall]
  /\ pc = [r \in Runs |-> RunStart]

RetryIdle ==
  /\ retry_ctx = RetryContext
  /\ ret = [op |-> "none", value |-> FALSE]

NoState ==
  [max_retries |-> 0, return_natural_language |-> FALSE, error_count |-> 0,
   current_sql |-> NoStr, failed_sql |-> NoStr, error_msg |-> NoStr,
   execution_result |-> NoRows, db_name |-> NoStr]

NoLog == [executed |-> <<>>, corrected |-> <<>>, raised |-> NoStr]

SeqIdle ==
  /\ wstate = NoState
  /\ spos = "idle"
  /\ seq_outputs = <<>>
  /\ seq_log = NoLog

LimIdle ==
  /\ rl_now = 0
  /\ rl_limiter = [requests_per_minute |-> 0, requests |-> <<>>]
  /\ rl_allowed = <<>>
  /\ rl_ret = [client_ip |-> NoStr, is_allowed |-> FALSE, remaining |-> 0,
               request_count |-> 0]

StreamIdle ==
  /\ wf_stream = [events |-> <<>>, raises |-> FALSE]
  /\ pos = 0
  /\ sse = <<>>
  /\ spc = "idle"

(***************************************************************************)
(* Bookkeeping shared by the steps.                                        *)
(***************************************************************************)
Send(to, m) == [to |-> to, msg |-> m]

Edge_mut(src) ==
  CASE src = "initialize_context" -> {"schema_understanding", "sql_generation"}
    [] src = "schema_understanding" -> {"sql_generation"}
    [] src = "sql_generation" -> {"sql_reviewer"}
    [] src = "handle_success" ->
         {"evaluate_sql_reasoning", "generate_natural_language_response"}
    [] OTHER -> {}

Edge(src) ==
  CASE src = "initialize_context" -> {"schema_understanding"}
    [] src = "schema_understanding" -> {"sql_generation"}
    [] src = "sql_generation" -> {"sql_reviewer"}
    [] src = "handle_success" ->
         {"evaluate_sql_reasoning", "generate_natural_language_response"}
    [] OTHER -> {}

Deliver(src, m) == {Send(t, m) : t \in Edge(src)}

Inbox(id) == {d \in pending : d.to = id}

Running == failed = NoStr /\ outputs = <<>>

Step(h, id) == [h EXCEPT !.last = id]

InitHist ==
  [last |-> "none", llm_calls |-> 0, gen_attempts |-> 0, schema_runs |-> 0,
   exec_calls |-> 0, all_syntax |-> TRUE,
   gen |-> [llm_confidence |-> NoNum, executed |-> FALSE, rows |-> NoRows,
            prompt |-> "none", status |-> "none",
            outcome |-> "none", engine_text |-> NoText,
            parse_failed |-> FALSE],
   gen_database |-> NoStr,
   eval |-> "none",
   nl |-> [outcome |-> "none", llm_called |-> FALSE],
   schema |-> [llm_called |-> FALSE, confidence |-> NoNum,
               catalog_view |-> [view |-> "none", dbs |-> {}],
               answer |-> NoStr],
   reviewed |-> [status |-> "none", retry_context |-> RetryContext],
   route |-> "none"]

\* A run that has not started: nothing sent, stored or yielded.
NotStarted ==
  /\ pending = {}
  /\ shared = [initialized |-> FALSE, return_natural_language |-> FALSE,
               current_schema_id |-> NoId,
               current_sql_response |-> NoSQLResponse,
               format_type |-> NoStr,
               success_message |-> WorkflowMessage("", "Init", RetryContext)]
  /\ schemas = <<>>
  /\ fanin = <<>>
  /\ outputs = <<>>
  /\ failed = NoStr
  /\ hist = InitHist

Init ==
  /\ input \in NL2SQLInputs
  /\ NotStarted
  /\ m_schema_file = [exists |-> input.catalog_exists,
                      version |-> IF input.catalog_exists THEN 1 ELSE 0]
  /\ SchemaStoreCold
  /\ RetryIdle
  /\ StreamIdle
  /\ SeqIdle
  /\ LimIdle

(***************************************************************************)
(* executors/initialization.py                                             *)
(***************************************************************************)
initialize_context ==
  /\ Running
  /\ hist.last = "none"
  /\ IF ~input.catalog_exists
       THEN \* load_m_schema raises FileNotFoundError
            /\ failed' = "FileNotFoundError"
            /\ UNCHANGED <<pending, shared>>
       ELSE /\ shared' = [shared EXCEPT
                 !.initialized = TRUE,
                 !.return_natural_language = input.return_natural_language]
            /\ pending' = Deliver("initialize_context",
                 [WorkflowMessage(input.question, "Init", RetryContext) EXCEPT
                    !.database = IF Truthy(input.selected_database)
                                   THEN input.selected_database ELSE "",
                    !.selected_tables = input.selected_tables])
            /\ UNCHANGED failed
  /\ hist' = Step(hist, "initialize_context")
  /\ UNCHANGED <<input, schemas, fanin, outputs>>
  /\ UNCHANGED <<storevars, retryvars, streamvars, seqvars, limvars>>

(***************************************************************************)
(* External capabilities: response shapes of the LLM and the database.     *)
(***************************************************************************)
SchemaLLMResponses ==
  [kind : {"json"}, database : {"concert_singer", "ghost_db", ""},
   tables : {<<"singer">>}]
  \cup [kind : {"json"}, database : {"pets"}, tables : {<<>>}]
  \cup [kind : {"partial"}, database : {"pets", "ghost_db"}, tables : {<<>>}]
  \cup [kind : {"garbage", "llm_error"}, database : {""}, tables : {<<>>}]

SQLTexts == {"SELECT COUNT(*) FROM singer"}

SQLLLMResponses ==
  [kind : {"json"}, sql : SQLTexts, confidence : {30, 50}]
  \cup [kind : {"partial"}, sql : SQLTexts, confidence : {NoNum}]
  \cup [kind : {"garbage", "llm_error"}, sql : {""}, confidence : {NoNum}]

EngineErrors ==
  { <<"near", "syntax error">>, <<"no such table">>, <<"database is locked">> }

\* Shapes of a returned result: an empty one, and 1..MaxRows rows of one or
\* two columns.
RowShapes ==
  {[rows |-> 0, cols |-> 1]} \cup [rows : 1..MaxRows, cols : {1, 2}]

ExecOutcomes ==
  [kind : {"rows"}, rows : RowShapes, text : {NoText}]
  \cup [kind : {"OperationalError"}, rows : {NoRows}, text : EngineErrors]
  \cup [kind : {"TimeoutError"}, rows : {NoRows}, text : {NoText}]
  \cup [kind : {"Exception"}, rows : {NoRows}, text : {<<"boom">>}]

(***************************************************************************)
(* executors/schema_selection.py                                           *)
(***************************************************************************)
\* The simplified catalog view placed in the prompt.
m_schema_for_agent(message) ==
  IF message.database # ""
    THEN IF message.database \in DOMAIN M_SCHEMA
           THEN [view |-> "tables_only", dbs |-> {message.database}]
           ELSE [view |-> "full_catalog", dbs |-> DOMAIN M_SCHEMA]
    ELSE [view |-> "tables_only", dbs |-> DOMAIN M_SCHEMA]

\* Whether the step asks the LLM at all.
schema_calls_llm(message) == TRUE

\* try: model_validate_json / except: regex on "database".
parse_schema_response(resp) ==
  CASE resp.kind = "json" ->
         [ok |-> TRUE, database |-> resp.database, tables |-> resp.tables]
    [] resp.kind = "partial" ->
         [ok |-> TRUE, database |-> resp.database, tables |-> <<>>]
    [] OTHER -> [ok |-> FALSE, database |-> "", tables |-> <<>>]

SchemaContext_mut(id, database, tables) ==
  [context_id |-> id, database |-> "",
   detailed_schema |-> <<"DDL", database>>,
   selected_tables |-> IF tables # <<>> THEN tables ELSE NoTables]

SchemaContext(id, database, tables) ==
  [context_id |-> id, database |-> database,
   detailed_schema |-> <<"DDL", database>>,
   selected_tables |-> IF tables # <<>> THEN tables ELSE NoTables]

\* database/spider_utils.py, SpiderDatabase.get_schema: no .sqlite file
get_schema_raises_mut(db_name) == FALSE

get_schema_raises(db_name) == db_name \notin SpiderDatabases

schema_understanding(resp) ==
  /\ Running
  /\ \E d \in Inbox("schema_understanding") :
       LET message == d.msg
           parsed == parse_schema_response(resp)
           schema_id == Len(schemas) + 1
           h == [Step(hist, "schema_understanding") EXCEPT
                   !.llm_calls = @ + (IF schema_calls_llm(message) THEN 1 ELSE 0),
                   !.schema_runs = @ + 1,
                   !.schema = [llm_called |-> schema_calls_llm(message),
                               confidence |-> NoNum,
                               catalog_view |-> m_schema_for_agent(message),
                               answer |-> parsed.database]]
       IN /\ hist' = h
          /\ IF resp.kind = "llm_error"
               THEN /\ failed' = "LLMError"
                    /\ pending' = pending \ {d}
                    /\ UNCHANGED <<shared, schemas>>
             ELSE IF ~parsed.ok \/ parsed.database = ""
               THEN \* raise ValueError(...)
                    /\ failed' = "ValueError"
                    /\ pending' = pending \ {d}
                    /\ UNCHANGED <<shared, schemas>>
             ELSE IF get_schema_raises(parsed.database)
               THEN \* SpiderDatabase.get_schema raises ValueError
                    /\ failed' = "ValueError"
                    /\ pending' = pending \ {d}
                    /\ UNCHANGED <<shared, schemas>>
             ELSE /\ schemas' = Append(schemas,
                        SchemaContext(schema_id, parsed.database, parsed.tables))
                  /\ shared' = [shared EXCEPT !.current_schema_id = schema_id]
                  /\ pending' = (pending \ {d}) \cup
                       Deliver("schema_understanding",
                         [WorkflowMessage(message.question, "SchemaSelected",
                                          message.retry_context) EXCEPT
                            !.database = parsed.database,
                            !.selected_tables = parsed.tables,
                            !.schema_id = schema_id,
                            !.reasoning = "schema reasoning"])
                  /\ UNCHANGED failed
  /\ UNCHANGED <<input, fanin, outputs>>
  /\ UNCHANGED <<storevars, retryvars, streamvars, seqvars, limvars>>

(***************************************************************************)
(* executors/sql_generation.py                                             *)
(***************************************************************************)
prompt_strategy_mut(message) ==
  IF /\ message.status \in {"SyntaxError", "SemanticError"}
     /\ Truthy(message.sql)
     /\ message.error_message # NoText /\ message.error_message # <<>>
    THEN "syntax_correction"
    ELSE "initial"

\* Prompt strategy chosen from the incoming message.
prompt_strategy(message) ==
  IF /\ message.status \in {"SyntaxError", "SemanticError"}
     /\ Truthy(message.sql)
     /\ message.error_message # NoText /\ message.error_message # <<>>
    THEN IF message.status = "SyntaxError" THEN "syntax_correction"
                                           ELSE "initial_fallback"
    ELSE "initial"

\* try: model_validate_json / except: regex on "sql".
parse_sql_response(resp) ==
  CASE resp.kind = "json" ->
         [ok |-> TRUE, sql |-> resp.sql, reasoning |-> "sql reasoning",
          confidence |-> resp.confidence]
    [] resp.kind = "partial" ->
         [ok |-> TRUE, sql |-> resp.sql, reasoning |-> "partial response",
          confidence |-> FALLBACK_CONFIDENCE]
    [] OTHER -> [ok |-> FALSE, sql |-> "", reasoning |-> NoStr,
                 confidence |-> NoNum]

\* The confidence gate.
at_or_below_threshold_mut(confidence) == confidence <= CONFIDENCE_THRESHOLD

below_threshold_mut(confidence) == confidence < 30

below_threshold(confidence) == confidence < CONFIDENCE_THRESHOLD

syntax_keywords ==
  {"syntax error", "near", "unrecognized token", "incomplete input"}

\* Status of the message built from the outcome of execute_query.
execution_status(outcome) ==
  CASE outcome.kind = "rows" -> "Success"
    [] outcome.kind = "OperationalError" ->
         IF ContainsAny(outcome.text, syntax_keywords) THEN "SyntaxError"
                                                       ELSE "SemanticError"
    [] outcome.kind = "TimeoutError" -> "Timeout"
    [] OTHER -> "SemanticError"

execution_error_message_mut(outcome) ==
  CASE outcome.kind = "OperationalError" -> outcome.text
    [] OTHER -> NoText

execution_error_message(outcome) ==
  CASE outcome.kind = "rows" -> NoText
    [] outcome.kind = "OperationalError" -> outcome.text
    [] outcome.kind = "TimeoutError" -> <<"Query execution timed out">>
    [] OTHER -> <<"Unexpected error">> \o outcome.text

\* Message sent when the response cannot be parsed at all.
parse_failure_message(message) ==
  [WorkflowMessage(message.question, "SemanticError", message.retry_context)
     EXCEPT !.database = message.database,
            !.sql = "",
            !.error_message = <<"Failed to parse SQL generation response">>,
            !.selected_tables = message.selected_tables,
            !.schema_id = message.schema_id]

\* Message sent when the confidence gate fires.
low_confidence_message_mut(message, parsed) ==
  [WorkflowMessage(message.question, "SemanticError", RetryContext)
     EXCEPT !.database = message.database,
            !.sql = parsed.sql,
            !.error_message =
               <<"Low confidence", "Agent suggests schema re-analysis.">>,
            !.selected_tables = message.selected_tables,
            !.schema_id = message.schema_id,
            !.confidence = parsed.confidence,
            !.reasoning = parsed.reasoning]

low_confidence_message(message, parsed) ==
  [WorkflowMessage(message.question, "SemanticError", message.retry_context)
     EXCEPT !.database = message.database,
            !.sql = parsed.sql,
            !.error_message =
               <<"Low confidence", "Agent suggests schema re-analysis.">>,
            !.selected_tables = message.selected_tables,
            !.schema_id = message.schema_id,
            !.confidence = parsed.confidence,
            !.reasoning = parsed.reasoning]

execution_message_mut(message, schema_ctx, parsed, outcome) ==
  [WorkflowMessage(message.question, execution_status(outcome),
                   message.retry_context)
     EXCEPT !.database = schema_ctx.database,
            !.sql = parsed.sql,
            !.result_rows = outcome.rows,
            !.error_message = execution_error_message(outcome),
            !.selected_tables = message.selected_tables,
            !.confidence = parsed.confidence,
            !.reasoning = parsed.reasoning,
            !.row_count = IF outcome.kind = "rows" THEN outcome.rows.rows
                                                   ELSE 0]

\* Message sent after execute_query returned or raised.
execution_message(message, schema_ctx, parsed, outcome) ==
  [WorkflowMessage(message.question, execution_status(outcome),
                   message.retry_context)
     EXCEPT !.database = schema_ctx.database,
            !.sql = parsed.sql,
            !.result_rows = outcome.rows,
            !.error_message = execution_error_message(outcome),
            !.selected_tables = message.selected_tables,
            !.schema_id = message.schema_id,
            !.confidence = parsed.confidence,
            !.reasoning = parsed.reasoning,
            !.row_count = IF outcome.kind = "rows" THEN outcome.rows.rows
                                                   ELSE 0]

sql_generation(resp, outcome) ==
  /\ Running
  /\ \E d \in Inbox("sql_generation") :
       LET message == d.msg
           schema_ctx == schemas[shared.current_schema_id]
           parsed == parse_sql_response(resp)
           gated == parsed.ok /\ below_threshold(parsed.confidence)
           executed == parsed.ok /\ ~gated
           out == IF ~parsed.ok THEN parse_failure_message(message)
                  ELSE IF gated THEN low_confidence_message(message, parsed)
                  ELSE execution_message(message, schema_ctx, parsed, outcome)
           h == [Step(hist, "sql_generation") EXCEPT
                   !.llm_calls = @ + 1,
                   !.gen_attempts = @ + 1,
                   !.gen = [llm_confidence |-> parsed.confidence,
                            executed |-> executed,
                            rows |-> IF executed THEN outcome.rows ELSE NoRows,
                            prompt |-> prompt_strategy(message),
                            status |-> out.status,
                            outcome |-> IF executed THEN outcome.kind
                                                    ELSE "none",
                            engine_text |-> IF executed THEN outcome.text
                                                        ELSE NoText,
                            parse_failed |-> ~parsed.ok]]
       IN IF resp.kind = "llm_error"
            THEN \* agent.run raises: the executor fails
                 /\ failed' = "LLMError"
                 /\ pending' = pending \ {d}
                 /\ hist' = [h EXCEPT !.gen.executed = FALSE,
                                      !.gen.status = "raised",
                                      !.gen.outcome = "none",
                                      !.gen.engine_text = NoText,
                                      !.gen.parse_failed = FALSE,
                                      !.all_syntax = FALSE]
                 /\ UNCHANGED shared
            ELSE /\ pending' = (pending \ {d}) \cup Deliver("sql_generation", out)
                 /\ shared' = IF parsed.ok
                      THEN [shared EXCEPT !.current_sql_response =
                              [sql |-> parsed.sql, reasoning |-> parsed.reasoning,
                               confidence |-> parsed.confidence]]
                      ELSE shared
                 /\ hist' = [h EXCEPT
                      !.gen_database = IF executed THEN schema_ctx.database
                                                   ELSE @,
                      !.exec_calls = @ + (IF executed THEN 1 ELSE 0),
                      !.all_syntax = @ /\ executed /\ out.status = "SyntaxError"]
                 /\ UNCHANGED failed
  \* unused draws are normalised so that they do not multiply transitions
  /\ (resp.kind \in {"garbage", "llm_error"}
        \/ (resp.kind = "json" /\ below_threshold(resp.confidence)))
       => outcome = [kind |-> "TimeoutError", rows |-> NoRows, text |-> NoText]
  /\ UNCHANGED <<input, schemas, fanin, outputs>>
  /\ UNCHANGED <<storevars, retryvars, streamvars, seqvars, limvars>>

(***************************************************************************)
(* executors/sql_reviewer.py                                               *)
(***************************************************************************)
ErrorResult(message, error_type) ==
  [keys |-> {"error", "error_type", "syntax_retry_count",
             "semantic_retry_count"},
   error |-> message.error_message, error_type |-> error_type,
   syntax_retry_count |-> message.retry_context.syntax_retry_count,
   semantic_retry_count |-> message.retry_context.semantic_retry_count,
   rows |-> NoRows, row_count |-> NoNum]

NoResponse == [is_null |-> TRUE, text |-> NoText]

Text(t) == [is_null |-> FALSE, text |-> t]

_terminate_with_error(message, error_type) ==
  NL2SQLOutput(IF Truthy(message.sql) THEN message.sql
                                      ELSE "-- Error: SQL not generated",
               IF message.database # "" THEN message.database ELSE "unknown",
               ErrorResult(message, error_type),
               Text(<<error_type>> \o message.error_message),
               NoEvaluation, "sql_reviewer")

NoOutput == NL2SQLOutput(NoStr, NoStr, ErrorResult(WorkflowMessage("", "Init",
              RetryContext), NoStr), NoResponse, NoEvaluation, "none")

\* Case 2: if retry_count >= MAX_SYNTAX_RETRIES
syntax_exhausted_mut(rc) == rc.syntax_retry_count > MAX_SYNTAX_RETRIES

syntax_exhausted(rc) == rc.syntax_retry_count >= MAX_SYNTAX_RETRIES

\* Case 3: if retry_count >= MAX_SEMANTIC_RETRIES
semantic_exhausted_mut(rc) ==
  rc.syntax_retry_count + rc.semantic_retry_count >= MAX_SEMANTIC_RETRIES

semantic_exhausted(rc) == rc.semantic_retry_count >= MAX_SEMANTIC_RETRIES

\* Case 3: target_id of the retry of a SemanticError.
semantic_retry_target == "sql_generation"

\* Case 4: every other status (Timeout, EmptyResult, ...) terminates.
review_other_mut(message) ==
  [target |-> "sql_generation", msg |-> message, out |-> NoOutput]

review_other(message) ==
  [target |-> "output", msg |-> message,
   out |-> _terminate_with_error(message, message.status)]

review_mut(message) ==
  LET rc == message.retry_context
  IN CASE message.status = "Success" ->
            [target |-> "handle_success", msg |-> message, out |-> NoOutput]
       [] message.status = "SyntaxError" ->
            IF syntax_exhausted(rc)
              THEN [target |-> "output", msg |-> message,
                    out |-> _terminate_with_error(message, "SyntaxError")]
              ELSE [target |-> "sql_generation",
                    msg |-> [message EXCEPT !.retry_context.syntax_retry_count
                                              = @ + 1],
                    out |-> NoOutput]
       [] message.status = "SemanticError" ->
            IF semantic_exhausted(rc)
              THEN [target |-> "output", msg |-> message,
                    out |-> _terminate_with_error(message, "SemanticError")]
              ELSE [target |-> semantic_retry_target,
                    msg |-> [message EXCEPT !.retry_context.syntax_retry_count
                                              = 0,
                                            !.retry_context.semantic_retry_count
                                              = @ + 1],
                    out |-> NoOutput]
       [] OTHER -> review_other(message)

\* The reviewer's decision: forward the (possibly updated) message to a
\* target, or terminate with an error output.
review(message) ==
  LET rc == message.retry_context
  IN CASE message.status = "Success" ->
            [target |-> "handle_success", msg |-> message, out |-> NoOutput]
       [] message.status = "SyntaxError" ->
            IF syntax_exhausted(rc)
              THEN [target |-> "output", msg |-> message,
                    out |-> _terminate_with_error(message, "SyntaxError")]
              ELSE [target |-> "sql_generation",
                    msg |-> [message EXCEPT !.retry_context.syntax_retry_count
                                              = @ + 1],
                    out |-> NoOutput]
       [] message.status = "SemanticError" ->
            IF semantic_exhausted(rc)
              THEN [target |-> "output", msg |-> message,
                    out |-> _terminate_with_error(message, "SemanticError")]
              ELSE [target |-> semantic_retry_target,
                    msg |-> [message EXCEPT !.retry_context.semantic_retry_count
                                              = @ + 1],
                    out |-> NoOutput]
       [] OTHER -> review_other(message)

sql_reviewer ==
  /\ Running
  /\ \E d \in Inbox("sql_reviewer") :
       LET r == review(d.msg)
       IN /\ hist' = [Step(hist, "sql_reviewer") EXCEPT
                        !.reviewed = [status |-> d.msg.status,
                                      retry_context |-> d.msg.retry_context],
                        !.route = r.target]
          /\ IF r.target = "output"
               THEN /\ outputs' = Append(outputs, r.out)
                    /\ pending' = pending \ {d}
               ELSE /\ pending' = (pending \ {d}) \cup {Send(r.target, r.msg)}
                    /\ UNCHANGED outputs
  /\ UNCHANGED <<input, shared, schemas, fanin, failed>>
  /\ UNCHANGED <<storevars, retryvars, streamvars, seqvars, limvars>>

(***************************************************************************)
(* executors/handle_success.py                                             *)
(***************************************************************************)
HasRows(rows) == rows # NoRows /\ rows.rows > 0

\* utils/formatters.py
should_use_table_format(rows) ==
  IF ~HasRows(rows) THEN FALSE
  ELSE IF rows.rows > 1 THEN TRUE
  ELSE rows.cols > 1

format_type_of(rows) ==
  IF HasRows(rows) /\ should_use_table_format(rows) THEN "table"
  ELSE IF HasRows(rows) THEN "single"
  ELSE "empty"

\* models.py, WorkflowMessage.is_success
is_success_mut(message) == message.status \notin {"SyntaxError", "SemanticError"}

is_success(message) == message.status = "Success"

handle_success ==
  /\ Running
  /\ \E d \in Inbox("handle_success") :
       LET message == d.msg
       IN IF ~is_success(message)
            THEN \* raise RuntimeError
                 /\ failed' = "RuntimeError"
                 /\ pending' = pending \ {d}
                 /\ UNCHANGED shared
            ELSE /\ shared' = [shared EXCEPT
                      !.format_type = format_type_of(message.result_rows),
                      !.success_message = message]
                 /\ pending' = (pending \ {d})
                                 \cup Deliver("handle_success", message)
                 /\ UNCHANGED failed
  /\ hist' = Step(hist, "handle_success")
  /\ UNCHANGED <<input, schemas, fanin, outputs>>
  /\ UNCHANGED <<storevars, retryvars, streamvars, seqvars, limvars>>

(***************************************************************************)
(* Fan-in edge: results of the two parallel steps, in arrival order.       *)
(***************************************************************************)
FanInSources ==
  {"evaluate_sql_reasoning", "generate_natural_language_response"}

Result(src, type, evaluation, text) ==
  [src |-> src, type |-> type, evaluation |-> evaluation, text |-> text]

Delivered == {fanin[i].src : i \in 1..Len(fanin)}

\* The aggregator is invoked once every source has delivered.
FanInReady_mut == Delivered # {}

FanInReady == FanInSources \subseteq Delivered

(***************************************************************************)
(* executors/evaluate_reasoning.py                                         *)
(***************************************************************************)
EvalLLMResponses ==
  [kind : {"json"}, is_correct : {"True"}, confidence : {90}]
  \cup [kind : {"garbage", "llm_error"}, is_correct : {"None"},
        confidence : {NoNum}]

\* The dictionary the step sends: the parsed evaluation, or the canned one
\* of the except branch.
evaluation_result_mut(resp) ==
  IF resp.kind = "json" /\ shared.current_sql_response # NoSQLResponse
    THEN Evaluation(resp.is_correct, resp.confidence, "LLM explanation")
    ELSE NoEvaluation

evaluation_result(resp) ==
  IF resp.kind = "json" /\ shared.current_sql_response # NoSQLResponse
    THEN Evaluation(resp.is_correct, resp.confidence, "LLM explanation")
    ELSE Evaluation("None", 0, "Evaluation failed")

evaluate_sql_reasoning(resp) ==
  /\ Running
  /\ \E d \in Inbox("evaluate_sql_reasoning") :
       /\ pending' = pending \ {d}
       /\ fanin' = Append(fanin, Result("evaluate_sql_reasoning", "dict",
                                         evaluation_result(resp), NoText))
  /\ hist' = [Step(hist, "evaluate_sql_reasoning") EXCEPT
                !.eval = resp.kind,
                !.llm_calls = @ + (IF shared.current_sql_response
                                        # NoSQLResponse THEN 1 ELSE 0)]
  /\ UNCHANGED <<input, shared, schemas, outputs, failed>>
  /\ UNCHANGED <<storevars, retryvars, streamvars, seqvars, limvars>>

(***************************************************************************)
(* executors/generate_nl_response.py                                       *)
(***************************************************************************)
NLLLMResponses == {"text", "llm_error"}

nl_skipped(message) ==
  ~shared.return_natural_language \/ ~HasRows(message.result_rows)

\* What the step sends: None, the LLM's text, or the fallback string.
nl_result_mut(message, resp) ==
  IF nl_skipped(message) \/ resp # "text"
    THEN Result("generate_natural_language_response", "None",
                NoEvaluation, NoText)
    ELSE Result("generate_natural_language_response", "str",
                NoEvaluation, <<"LLM answer">>)

nl_result(message, resp) ==
  IF nl_skipped(message)
    THEN Result("generate_natural_language_response", "None",
                NoEvaluation, NoText)
  ELSE IF resp = "text"
    THEN Result("generate_natural_language_response", "str",
                NoEvaluation, <<"LLM answer">>)
  ELSE Result("generate_natural_language_response", "str", NoEvaluation,
              <<"Found", ToString(message.result_rows.rows), "result(s).">>)

generate_natural_language_response(resp) ==
  /\ Running
  /\ \E d \in Inbox("generate_natural_language_response") :
       /\ pending' = pending \ {d}
       /\ fanin' = Append(fanin, nl_result(d.msg, resp))
       /\ hist' = [Step(hist, "generate_natural_language_response") EXCEPT
                     !.nl = [outcome |-> IF nl_skipped(d.msg) THEN "skipped"
                                                               ELSE resp,
                             llm_called |-> ~nl_skipped(d.msg)],
                     !.llm_calls = @ + (IF nl_skipped(d.msg) THEN 0 ELSE 1)]
       /\ nl_skipped(d.msg) => resp = "text"
  /\ UNCHANGED <<input, shared, schemas, outputs, failed>>
  /\ UNCHANGED <<storevars, retryvars, streamvars, seqvars, limvars>>

(***************************************************************************)
(* executors/aggregate_results.py                                          *)
(***************************************************************************)
Last(S) == CHOOSE i \in S : \A j \in S : j <= i

DefaultEvaluation == Evaluation("None", 0, "Evaluation not performed")

\* if reasoning_evaluation is None: use the neutral default
evaluation_or_default_mut(found) == found

evaluation_or_default(found) ==
  IF found.is_null THEN DefaultEvaluation ELSE found

SuccessResult_mut(message) ==
  [keys |-> {"row_count", "execution_time_ms"},
   error |-> NoText, error_type |-> NoStr,
   syntax_retry_count |-> NoNum, semantic_retry_count |-> NoNum,
   rows |-> NoRows, row_count |-> message.row_count]

SuccessResult(message) ==
  [keys |-> {"rows", "row_count", "execution_time_ms"},
   error |-> NoText, error_type |-> NoStr,
   syntax_retry_count |-> NoNum, semantic_retry_count |-> NoNum,
   rows |-> message.result_rows, row_count |-> message.row_count]

aggregate_mut(results, message) ==
  LET strs == {i \in 1..Len(results) : results[i].type = "str"}
      found == IF results[1].type = "dict" THEN results[1].evaluation
                                           ELSE NoEvaluation
      reasoning_evaluation == evaluation_or_default(found)
      natural_language_response ==
        IF strs = {} THEN NoResponse ELSE Text(results[Last(strs)].text)
  IN NL2SQLOutput(IF Truthy(message.sql) THEN message.sql ELSE "",
                  message.database, SuccessResult(message),
                  natural_language_response, reasoning_evaluation,
                  "aggregate_success_results")

\* for msg in results: isinstance(msg, dict) / isinstance(msg, str) / None
aggregate(results, message) ==
  LET dicts == {i \in 1..Len(results) : results[i].type = "dict"}
      strs == {i \in 1..Len(results) : results[i].type = "str"}
      found == IF dicts = {} THEN NoEvaluation
                             ELSE results[Last(dicts)].evaluation
      reasoning_evaluation == evaluation_or_default(found)
      natural_language_response ==
        IF strs = {} THEN NoResponse ELSE Text(results[Last(strs)].text)
  IN NL2SQLOutput(IF Truthy(message.sql) THEN message.sql ELSE "",
                  message.database, SuccessResult(message),
                  natural_language_response, reasoning_evaluation,
                  "aggregate_success_results")

\* The logging condition
\*   not reasoning_evaluation.get("is_correct") and eval_confidence < 50
\* compares the confidence with a number: a TypeError when it is None.
aggregate_raises(results) ==
  LET dicts == {i \in 1..Len(results) : results[i].type = "dict"}
      found == IF dicts = {} THEN NoEvaluation
                             ELSE results[Last(dicts)].evaluation
      reasoning_evaluation == evaluation_or_default(found)
  IN /\ reasoning_evaluation.is_correct # "True"
     /\ reasoning_evaluation.confidence = NoNum

aggregate_success_results ==
  /\ Running
  /\ FanInReady
  /\ IF aggregate_raises(fanin)
       THEN /\ failed' = "TypeError"
            /\ UNCHANGED outputs
       ELSE /\ outputs' = Append(outputs,
                              aggregate(fanin, shared.success_message))
            /\ UNCHANGED failed
  /\ hist' = Step(hist, "aggregate_success_results")
  /\ UNCHANGED <<input, pending, shared, schemas, fanin>>
  /\ UNCHANGED <<storevars, retryvars, streamvars, seqvars, limvars>>

Next ==
  \/ initialize_context
  \/ \E resp \in SchemaLLMResponses : schema_understanding(resp)
  \/ \E resp \in SQLLLMResponses, outcome \in ExecOutcomes :
       sql_generation(resp, outcome)
  \/ sql_reviewer
  \/ handle_success
  \/ \E resp \in EvalLLMResponses : evaluate_sql_reasoning(resp)
  \/ \E resp \in NLLLMResponses : generate_natural_language_response(resp)
  \/ aggregate_success_results

Spec == Init /\ [][Next]_vars

\* The workflow run delivers every message that was sent: a step with a
\* waiting message is eventually run.
FairSpec == Spec /\ WF_vars(Next)

(***************************************************************************)
(* models.py, RetryContext and the WorkflowMessage helpers that delegate   *)
(* to it: a RetryContext object of any content and calls of its methods.   *)
(***************************************************************************)
MaxCount == 3

MaxBudget == 2

RetryContexts ==
  [syntax_retry_count : 0..MaxCount, semantic_retry_count : 0..MaxCount,
   max_syntax_retries : 0..MaxBudget, max_semantic_retries : 0..MaxBudget]

\* WorkflowMessage.can_retry_syntax / can_retry_semantic
message_can_retry_syntax(message) == can_retry_syntax(message.retry_context)

message_can_retry_semantic(message) ==
  can_retry_semantic(message.retry_context)

IdleInput ==
  [question |-> "How many singers do we have?", selected_database |-> NoStr,
   selected_tables |-> NoTables, return_natural_language |-> FALSE,
   catalog_exists |-> TRUE]

InitRetry ==
  /\ input = IdleInput
  /\ NotStarted
  /\ m_schema_file = [exists |-> TRUE, version |-> 1]
  /\ SchemaStoreCold
  /\ retry_ctx \in RetryContexts
  /\ ret = [op |-> "none", value |-> FALSE]
  /\ StreamIdle
  /\ SeqIdle
  /\ LimIdle

call_can_retry_syntax ==
  /\ ret' = [op |-> "can_retry_syntax", value |-> can_retry_syntax(retry_ctx)]
  /\ UNCHANGED <<retry_ctx, wfvars, storevars, streamvars, seqvars, limvars>>

call_can_retry_semantic ==
  /\ ret' = [op |-> "can_retry_semantic",
             value |-> can_retry_semantic(retry_ctx)]
  /\ UNCHANGED <<retry_ctx, wfvars, storevars, streamvars, seqvars, limvars>>

call_message_can_retry(kind) ==
  LET message == WorkflowMessage("q", kind, retry_ctx)
  IN /\ ret' = [op |-> "message_can_retry",
                value |-> IF kind = "SyntaxError"
                            THEN message_can_retry_syntax(message)
                            ELSE message_can_retry_semantic(message)]
     /\ UNCHANGED <<retry_ctx, wfvars, storevars, streamvars, seqvars, limvars>>

call_increment_syntax ==
  /\ retry_ctx.syntax_retry_count < MaxCount
  /\ retry_ctx' = increment_syntax(retry_ctx)
  /\ ret' = [op |-> "increment_syntax", value |-> FALSE]
  /\ UNCHANGED <<wfvars, storevars, streamvars, seqvars, limvars>>

call_increment_semantic ==
  /\ retry_ctx.semantic_retry_count < MaxCount
  /\ retry_ctx' = increment_semantic(retry_ctx)
  /\ ret' = [op |-> "increment_semantic", value |-> FALSE]
  /\ UNCHANGED <<wfvars, storevars, streamvars, seqvars, limvars>>

\* sql_reviewer handed a failed message that carries retry_ctx: whether it
\* sends the message back for a retry (TRUE) or terminates (FALSE).
call_sql_reviewer(kind) ==
  LET message == [WorkflowMessage("q", kind, retry_ctx) EXCEPT
                    !.sql = "SELECT COUNT(*) FROM singer",
                    !.error_message = <<"boom">>]
  IN /\ ret' = [op |-> kind, value |-> review(message).target # "output"]
     /\ UNCHANGED <<retry_ctx, wfvars, storevars, streamvars, seqvars, limvars>>

NextRetry ==
  \/ call_can_retry_syntax
  \/ call_can_retry_semantic
  \/ \E kind \in {"SyntaxError", "SemanticError"} : call_message_can_retry(kind)
  \/ \E kind \in {"SyntaxError", "SemanticError"} : call_sql_reviewer(kind)
  \/ call_increment_syntax
  \/ call_increment_semantic

SpecRetry == InitRetry /\ [][NextRetry]_vars

(***************************************************************************)
(* The schema store under concurrent runs.  Runs are tasks of one event    *)
(* loop; load_m_schema and the body of load_m_schema_executor contain no   *)
(* await, so each call is one step.                                        *)
(***************************************************************************)
InitStore ==
  /\ input = IdleInput
  /\ NotStarted
  /\ m_schema_file \in {[exists |-> FALSE, version |-> 0],
                        [exists |-> TRUE, version |-> 1]}
  /\ SchemaStoreCold
  /\ RetryIdle
  /\ StreamIdle
  /\ SeqIdle
  /\ LimIdle

\* functools.lru_cache(maxsize=1) on a function without arguments: a hit
\* once a result is stored.
lru_hit_mut(cache) == FALSE

lru_hit(cache) == cache # NoObj

\* if _M_SCHEMA_CACHE is not None
global_hit_mut(cache) == FALSE

global_hit(cache) == cache # NoObj

Call(fn, r, obj, raised) ==
  [fn |-> fn, run |-> r, returned |-> obj, raised |-> raised]

RunAt(at, via, obj) == [at |-> at, via |-> via, m_schema |-> obj]

\* database/schema_cache.py: load_m_schema(), called by initialize_context
\* of run r.
load_m_schema(r) ==
  /\ pc[r].at = "start"
  /\ IF lru_hit(lru)
       THEN /\ pc' = [pc EXCEPT ![r] = RunAt("loaded", "load_m_schema", lru)]
            /\ loader' = [loader EXCEPT
                 !.last = Call("load_m_schema", r, lru, FALSE)]
            /\ UNCHANGED <<lru, heap>>
     ELSE IF ~m_schema_file.exists
       THEN \* raise FileNotFoundError: nothing is cached
            /\ pc' = [pc EXCEPT ![r] = RunAt("failed", "load_m_schema", NoObj)]
            /\ loader' = [loader EXCEPT
                 !.last = Call("load_m_schema", r, NoObj, TRUE)]
            /\ UNCHANGED <<lru, heap>>
     ELSE /\ Len(heap) < MaxObjects
          /\ heap' = Append(heap, m_schema_file.version)
          /\ lru' = Len(heap) + 1
          /\ pc' = [pc EXCEPT
               ![r] = RunAt("loaded", "load_m_schema", Len(heap) + 1)]
          /\ loader' = [loader EXCEPT
               !.file_reads = @ + 1,
               !.lru_fills = @ + 1,
               !.last = Call("load_m_schema", r, Len(heap) + 1, FALSE)]
  /\ UNCHANGED <<m_schema_file, _M_SCHEMA_CACHE, wfvars, retryvars, streamvars, seqvars, limvars>>

\* workflow.py: load_m_schema_executor of run r.
load_m_schema_executor(r) ==
  /\ pc[r].at = "start"
  /\ IF global_hit(_M_SCHEMA_CACHE)
       THEN /\ pc' = [pc EXCEPT ![r] =
                 RunAt("loaded", "load_m_schema_executor", _M_SCHEMA_CACHE)]
            /\ loader' = [loader EXCEPT !.last_global =
                 Call("load_m_schema_executor", r, _M_SCHEMA_CACHE, FALSE)]
            /\ UNCHANGED <<_M_SCHEMA_CACHE, heap>>
     ELSE IF ~m_schema_file.exists
       THEN \* raise FileNotFoundError
            /\ pc' = [pc EXCEPT ![r] =
                 RunAt("failed", "load_m_schema_executor", NoObj)]
            /\ loader' = [loader EXCEPT !.last_global =
                 Call("load_m_schema_executor", r, NoObj, TRUE)]
            /\ UNCHANGED <<_M_SCHEMA_CACHE, heap>>
     ELSE /\ Len(heap) < MaxObjects
          /\ heap' = Append(heap, m_schema_file.version)
          /\ _M_SCHEMA_CACHE' = Len(heap) + 1
          /\ pc' = [pc EXCEPT ![r] =
               RunAt("loaded", "load_m_schema_executor", Len(heap) + 1)]
          /\ loader' = [loader EXCEPT
               !.file_reads = @ + 1,
               !.global_fills = @ + 1,
               !.last_global =
                 Call("load_m_schema_executor", r, Len(heap) + 1, FALSE)]
  /\ UNCHANGED <<m_schema_file, lru, wfvars, retryvars, streamvars, seqvars, limvars>>

\* The later steps of run r read the catalog they were given and finish.
use_m_schema(r) ==
  /\ pc[r].at = "loaded"
  /\ pc' = [pc EXCEPT ![r].at = "done"]
  /\ UNCHANGED <<m_schema_file, lru, _M_SCHEMA_CACHE, heap, loader,
                 wfvars, retryvars, streamvars, seqvars, limvars>>

\* The next request served by the same process.
next_request(r) ==
  /\ pc[r].at \in {"done", "failed"}
  /\ pc' = [pc EXCEPT ![r] = RunStart]
  /\ UNCHANGED <<m_schema_file, lru, _M_SCHEMA_CACHE, heap, loader,
                 wfvars, retryvars, streamvars, seqvars, limvars>>

\* database/generate_m_schema.py rewrites m_schema.json.
generate_m_schema ==
  /\ m_schema_file.version < MaxVersions
  /\ m_schema_file' = [exists |-> TRUE, version |-> m_schema_file.version + 1]
  /\ UNCHANGED <<lru, _M_SCHEMA_CACHE, heap, loader, pc, wfvars, retryvars, streamvars, seqvars, limvars>>

\* database/schema_cache.py: invalidate_schema_cache(); no step of a
\* workflow run calls it.
invalidate_schema_cache ==
  /\ lru' = NoObj
  /\ loader' = [loader EXCEPT
       !.last = Call("invalidate_schema_cache", 0, NoObj, FALSE)]
  /\ UNCHANGED <<m_schema_file, _M_SCHEMA_CACHE, heap, pc, wfvars, retryvars, streamvars, seqvars, limvars>>

\* Steps of workflow runs, and the file being regenerated meanwhile.
NextRuns ==
  \/ \E r \in Runs : load_m_schema(r)
  \/ \E r \in Runs : load_m_schema_executor(r)
  \/ \E r \in Runs : use_m_schema(r)
  \/ \E r \in Runs : next_request(r)
  \/ generate_m_schema

SpecRuns == InitStore /\ [][NextRuns]_vars

\* Every operation of the store, invalidation included.
NextStore ==
  \/ \E r \in Runs : load_m_schema(r)
  \/ \E r \in Runs : load_m_schema_executor(r)
  \/ \E r \in Runs : use_m_schema(r)
  \/ \E r \in Runs : next_request(r)
  \/ generate_m_schema
  \/ invalidate_schema_cache

SpecStore == InitStore /\ [][NextStore]_vars

(***************************************************************************)
(* The reviewer and the success path run on an arbitrary incoming message: *)
(* sql_reviewer or handle_success is handed a message of any status.       *)
(***************************************************************************)
Statuses ==
  {"Success", "SyntaxError", "SemanticError", "Timeout", "EmptyResult",
   "SchemaSelected"}

HandlerMessages ==
  { [WorkflowMessage("How many singers do we have?", st, rc) EXCEPT
       !.database = "concert_singer",
       !.sql = "SELECT COUNT(*) FROM singer",
       !.result_rows = IF st = "Success" THEN rows ELSE NoRows,
       !.row_count = IF st = "Success" THEN rows.rows ELSE 0,
       !.error_message = IF st = "Success" THEN NoText ELSE <<"boom">>,
       !.schema_id = 1] :
      st \in Statuses, rows \in {[rows |-> 0, cols |-> 1],
                                 [rows |-> 1, cols |-> 1]},
      rc \in {[RetryContext EXCEPT !.syntax_retry_count = a,
                                   !.semantic_retry_count = b] :
                a \in {0, MAX_SYNTAX_RETRIES},
                b \in {0, MAX_SEMANTIC_RETRIES}} }

InitSuccess ==
  /\ input = IdleInput
  /\ \E to \in {"sql_reviewer", "handle_success"}, m \in HandlerMessages :
       pending = {Send(to, m)}
  /\ \E nl \in BOOLEAN :
       shared = [initialized |-> TRUE, return_natural_language |-> nl,
                 current_schema_id |-> 1,
                 current_sql_response |->
                   [sql |-> "SELECT COUNT(*) FROM singer",
                    reasoning |-> "sql reasoning", confidence |-> 50],
                 format_type |-> NoStr,
                 success_message |-> WorkflowMessage("", "Init", RetryContext)]
  /\ schemas = <<SchemaContext(1, "concert_singer", <<"singer">>)>>
  /\ fanin = <<>>
  /\ outputs = <<>>
  /\ failed = NoStr
  /\ hist = InitHist
  /\ m_schema_file = [exists |-> TRUE, version |-> 1]
  /\ SchemaStoreCold
  /\ RetryIdle
  /\ StreamIdle
  /\ SeqIdle
  /\ LimIdle

NextSuccess ==
  \/ sql_reviewer
  \/ handle_success
  \/ \E resp \in EvalLLMResponses : evaluate_sql_reasoning(resp)
  \/ \E resp \in NLLLMResponses : generate_natural_language_response(resp)
  \/ aggregate_success_results

SpecSuccess == InitSuccess /\ [][NextSuccess]_vars

(***************************************************************************)
(* workflow.py, the sequential workflow: execute_sql_executor (one action   *)
(* per iteration of its while loop) and generate_nl_response_executor.     *)
(* The run starts where SQL generation has sent its state on.              *)
(***************************************************************************)
MaxSeqRetries == 2

SeqOutcomes ==
  [kind : {"rows"}, rows : {[rows |-> 0, cols |-> 1], [rows |-> 1, cols |-> 1]}]
  \cup [kind : {"error"}, rows : {NoRows}]

Corrections == {"SELECT b", "SELECT c", "llm_error"}

InitSeq ==
  /\ input = IdleInput
  /\ NotStarted
  /\ m_schema_file = [exists |-> TRUE, version |-> 1]
  /\ SchemaStoreCold
  /\ RetryIdle
  /\ StreamIdle
  /\ LimIdle
  /\ \E mr \in 0..MaxSeqRetries, nl \in BOOLEAN :
       wstate = [NoState EXCEPT !.max_retries = mr,
                                !.return_natural_language = nl,
                                !.current_sql = "SELECT a",
                                !.db_name = "concert_singer"]
  /\ spos = "execute_sql"
  /\ seq_outputs = <<>>
  /\ seq_log = NoLog

\* while state.error_count <= state.max_retries
loop_continues(state) == state.error_count <= state.max_retries

\* if state.error_count >= state.max_retries: raise "Max retries exceeded"
retries_exhausted_mut(state) == state.error_count > state.max_retries

retries_exhausted(state) == state.error_count >= state.max_retries

execute_sql_executor(outcome, correction) ==
  /\ spos = "execute_sql"
  /\ IF ~loop_continues(wstate)
       THEN \* the loop ends and the function returns
            /\ spos' = "returned"
            /\ UNCHANGED <<wstate, seq_log>>
     ELSE IF outcome.kind = "rows"
       THEN /\ wstate' = [wstate EXCEPT !.execution_result = outcome.rows]
            /\ seq_log' = [seq_log EXCEPT
                 !.executed = Append(@, wstate.current_sql)]
            /\ spos' = "generate_nl_response"
     ELSE IF retries_exhausted(wstate)
       THEN /\ seq_log' = [seq_log EXCEPT
                 !.executed = Append(@, wstate.current_sql),
                 !.raised = "Max retries exceeded"]
            /\ spos' = "raised"
            /\ UNCHANGED wstate
     ELSE IF correction = "llm_error"
       THEN \* correct_sql_error raises: re-raised by the inner except
            /\ wstate' = [wstate EXCEPT !.failed_sql = wstate.current_sql,
                                        !.error_msg = "engine error",
                                        !.error_count = @ + 1]
            /\ seq_log' = [seq_log EXCEPT
                 !.executed = Append(@, wstate.current_sql),
                 !.raised = "correction failed"]
            /\ spos' = "raised"
     ELSE /\ wstate' = [wstate EXCEPT !.failed_sql = wstate.current_sql,
                                      !.error_msg = "engine error",
                                      !.error_count = @ + 1,
                                      !.current_sql = correction]
          /\ seq_log' = [seq_log EXCEPT
               !.executed = Append(@, wstate.current_sql),
               !.corrected = Append(@, correction)]
          /\ spos' = "execute_sql"
  \* unused draws are normalised
  /\ (~loop_continues(wstate) \/ outcome.kind = "rows"
        \/ retries_exhausted(wstate)) => correction = "llm_error"
  /\ ~loop_continues(wstate) => outcome.kind = "error"
  /\ UNCHANGED <<seq_outputs, wfvars, storevars, retryvars, streamvars, limvars>>

base_result(state) ==
  [keys |-> {"sql", "execution_result", "database"},
   sql |-> IF Truthy(state.current_sql) THEN state.current_sql ELSE "",
   execution_result |-> state.execution_result,
   database |-> state.db_name,
   natural_language_response |-> NoStr, error |-> NoStr]

seq_result_mut(state, resp) ==
  IF ~state.return_natural_language THEN base_result(state)
  ELSE IF resp = "text"
    THEN [base_result(state) EXCEPT
            !.keys = @ \cup {"natural_language_response"},
            !.natural_language_response = "LLM answer"]
  ELSE [base_result(state) EXCEPT !.keys = {"error"}, !.error = "LLMError",
                                  !.sql = NoStr]

\* The dictionary the final step yields.
seq_result(state, resp) ==
  IF ~state.return_natural_language THEN base_result(state)
  ELSE IF resp = "text"
    THEN [base_result(state) EXCEPT
            !.keys = @ \cup {"natural_language_response"},
            !.natural_language_response = "LLM answer"]
  ELSE [base_result(state) EXCEPT !.keys = @ \cup {"error"},
                                  !.error = "LLMError"]

generate_nl_response_executor(resp) ==
  /\ spos = "generate_nl_response"
  /\ seq_outputs' = Append(seq_outputs, seq_result(wstate, resp))
  /\ spos' = "done"
  /\ ~wstate.return_natural_language => resp = "text"
  /\ UNCHANGED <<wstate, seq_log, wfvars, storevars, retryvars, streamvars, limvars>>

NextSeq ==
  \/ \E outcome \in SeqOutcomes, correction \in Corrections :
       execute_sql_executor(outcome, correction)
  \/ \E resp \in NLLLMResponses : generate_nl_response_executor(resp)

SpecSeq == InitSeq /\ [][NextSeq]_vars

(***************************************************************************)
(* middleware/rate_limiter.py, RateLimiter.  time.time() is a clock that   *)
(* advances in ticks; the window is WindowSize ticks long.                 *)
(***************************************************************************)
MaxTime == 4

WindowSize == 2

MaxRequestsPerMinute == 2

Clients == {"10.0.0.1", "10.0.0.2"}

InitLimiter ==
  /\ input = IdleInput
  /\ NotStarted
  /\ m_schema_file = [exists |-> TRUE, version |-> 1]
  /\ SchemaStoreCold
  /\ RetryIdle
  /\ StreamIdle
  /\ SeqIdle
  /\ rl_now = 0
  /\ \E rpm \in 0..MaxRequestsPerMinute :
       rl_limiter = [requests_per_minute |-> rpm,
                     requests |-> [c \in Clients |-> <<>>]]
  /\ rl_allowed = [c \in Clients |-> <<>>]
  /\ rl_ret = [client_ip |-> NoStr, is_allowed |-> FALSE, remaining |-> 0,
               request_count |-> 0]

\* if current_time - ts < self.window_size
in_window_mut(current_time, ts) == current_time - ts < WindowSize - 1

in_window(current_time, ts) == current_time - ts < WindowSize

RECURSIVE clean_up(_, _)
clean_up(timestamps, current_time) ==
  IF timestamps = <<>> THEN <<>>
  ELSE IF in_window(current_time, Head(timestamps))
    THEN <<Head(timestamps)>> \o clean_up(Tail(timestamps), current_time)
    ELSE clean_up(Tail(timestamps), current_time)

is_allowed(client_ip) ==
  LET current_time == rl_now
      kept == clean_up(rl_limiter.requests[client_ip], current_time)
      request_count == Len(kept)
  IN /\ IF request_count >= rl_limiter.requests_per_minute
          THEN /\ rl_limiter' = [rl_limiter EXCEPT !.requests[client_ip] = kept]
               /\ rl_ret' = [client_ip |-> client_ip, is_allowed |-> FALSE,
                             remaining |-> 0, request_count |-> request_count]
               /\ UNCHANGED rl_allowed
          ELSE /\ rl_limiter' = [rl_limiter EXCEPT !.requests[client_ip] =
                                   Append(kept, current_time)]
               /\ rl_ret' = [client_ip |-> client_ip, is_allowed |-> TRUE,
                             remaining |-> rl_limiter.requests_per_minute
                                             - request_count - 1,
                             request_count |-> request_count]
               /\ rl_allowed' = [rl_allowed EXCEPT ![client_ip] =
                                   Append(@, current_time)]
     /\ UNCHANGED <<rl_now, wfvars, storevars, retryvars, streamvars, seqvars>>

\* The clock advances.
time_passes ==
  /\ rl_now < MaxTime
  /\ rl_now' = rl_now + 1
  /\ UNCHANGED <<rl_limiter, rl_allowed, rl_ret>>
  /\ UNCHANGED <<wfvars, storevars, retryvars, streamvars, seqvars>>

NextLimiter ==
  \/ \E client_ip \in Clients : is_allowed(client_ip)
  \/ time_passes

SpecLimiter == InitLimiter /\ [][NextLimiter]_vars

(***************************************************************************)
(* main.py, nl2sql.generate: the streaming endpoint.  The workflow's       *)
(* run_stream is an external source of events that ends or raises; an      *)
(* event may carry data that json.dumps cannot serialise.                  *)
(***************************************************************************)
MaxEvents == 3

EventKinds ==
  { [executor_id |-> "schema_understanding", data |-> "none"],
    [executor_id |-> "sql_generation", data |-> "none"],
    [executor_id |-> NoStr, data |-> "none"],
    [executor_id |-> NoStr, data |-> "model"],
    [executor_id |-> NoStr, data |-> "unserialisable"] }

SeqsUpTo(S, n) == UNION {[1..k -> S] : k \in 0..n}

InitStream ==
  /\ input = IdleInput
  /\ NotStarted
  /\ m_schema_file = [exists |-> TRUE, version |-> 1]
  /\ SchemaStoreCold
  /\ RetryIdle
  /\ wf_stream \in [events : SeqsUpTo(EventKinds, MaxEvents), raises : BOOLEAN]
  /\ pos = 0
  /\ sse = <<>>
  /\ spc = "streaming"
  /\ SeqIdle
  /\ LimIdle

\* event_data of one workflow event.
event_chunk(event) ==
  [kind |-> "event", executor_id |-> event.executor_id,
   data |-> IF event.data = "model" THEN "model_dump" ELSE "none"]

CompletedMarker == [kind |-> "completed", executor_id |-> NoStr, data |-> "none"]

ErrorMarker == [kind |-> "error", executor_id |-> NoStr, data |-> "none"]

\* One iteration of: async for event in nl2sql_workflow(...): yield chunk
send_event_mut ==
  /\ spc = "streaming"
  /\ pos < Len(wf_stream.events)
  /\ pos' = pos + 1
  /\ IF wf_stream.events[pos + 1].data = "unserialisable"
       THEN /\ sse' = Append(sse, ErrorMarker)
            /\ UNCHANGED spc
       ELSE /\ sse' = Append(sse, event_chunk(wf_stream.events[pos + 1]))
            /\ UNCHANGED spc
  /\ UNCHANGED <<wf_stream, wfvars, storevars, retryvars, seqvars, limvars>>

send_event ==
  /\ spc = "streaming"
  /\ pos < Len(wf_stream.events)
  /\ pos' = pos + 1
  /\ IF wf_stream.events[pos + 1].data = "unserialisable"
       THEN \* json.dumps raises TypeError: the except branch
            /\ sse' = Append(sse, ErrorMarker)
            /\ spc' = "done"
       ELSE /\ sse' = Append(sse, event_chunk(wf_stream.events[pos + 1]))
            /\ UNCHANGED spc
  /\ UNCHANGED <<wf_stream, wfvars, storevars, retryvars, seqvars, limvars>>

\* The event source is exhausted: yield the completion signal.
workflow_completes ==
  /\ spc = "streaming"
  /\ pos = Len(wf_stream.events)
  /\ ~wf_stream.raises
  /\ sse' = Append(sse, CompletedMarker)
  /\ spc' = "done"
  /\ UNCHANGED <<wf_stream, pos, wfvars, storevars, retryvars, seqvars, limvars>>

\* The event source raises: the except branch yields the error marker.
workflow_raises ==
  /\ spc = "streaming"
  /\ pos = Len(wf_stream.events)
  /\ wf_stream.raises
  /\ sse' = Append(sse, ErrorMarker)
  /\ spc' = "done"
  /\ UNCHANGED <<wf_stream, pos, wfvars, storevars, retryvars, seqvars, limvars>>

\* The client goes away: the generator is closed at its current yield
\* (GeneratorExit is not an Exception), nothing more is sent.
client_disconnects ==
  /\ spc = "streaming"
  /\ spc' = "closed"
  /\ UNCHANGED <<wf_stream, pos, sse, wfvars, storevars, retryvars, seqvars, limvars>>

NextStream ==
  \/ send_event
  \/ workflow_completes
  \/ workflow_raises
  \/ client_disconnects

SpecStream == InitStream /\ [][NextStream]_vars

(***************************************************************************)
(* Properties.                                                             *)
(***************************************************************************)
Finished == failed # NoStr \/ outputs # <<>>

ErrorOutputs ==
  {i \in 1..Len(outputs) : "error_type" \in outputs[i].execution_result.keys}

\* C1: in a run whose every SQL-generation attempt was executed and ended in
\* SyntaxError, there are never more than max_syntax_retries + 1 attempts,
\* an output exists once the reviewer has seen attempt max_syntax_retries + 1,
\* and that output is the single error output, emitted after exactly
\* max_syntax_retries + 1 attempts.
C1_SyntaxRetryBound ==
  (hist.all_syntax /\ hist.gen_attempts >= 1) =>
     /\ hist.gen_attempts <= RetryContext.max_syntax_retries + 1
     /\ failed = NoStr
     /\ (hist.last = "sql_reviewer"
           /\ hist.gen_attempts = RetryContext.max_syntax_retries + 1)
          => outputs # <<>>
     /\ outputs # <<>> =>
          /\ hist.gen_attempts = RetryContext.max_syntax_retries + 1
          /\ Len(outputs) = 1
          /\ ErrorOutputs = {1}

C1_Witness ==
  /\ hist.all_syntax
  /\ hist.gen_attempts = 3
  /\ Len(outputs) = 1
  /\ outputs[1].execution_result.error_type = "SyntaxError"

\* C2: after the reviewer has handled a SemanticError with semantic retries
\* remaining, the message is on its way to Schema Understanding (and to no
\* other step).
C2_SemanticRetryToSchemaUnderstanding ==
  (/\ hist.last = "sql_reviewer"
   /\ hist.reviewed.status = "SemanticError"
   /\ can_retry_semantic(hist.reviewed.retry_context))
    => /\ pending # {}
       /\ \A d \in pending :
            /\ d.to = "schema_understanding"
            /\ d.msg.status = "SemanticError"

\* C3: when the SQL-generation LLM response has confidence < 50, the step
\* does not call the query executor and the message it emits has status
\* SemanticError and an error_message containing "Low confidence".
C3_LowConfidenceGate ==
  (/\ hist.last = "sql_generation"
   /\ hist.gen.llm_confidence # NoNum
   /\ hist.gen.llm_confidence < 50)
    => /\ ~hist.gen.executed
       /\ pending # {}
       /\ \A d \in pending :
            /\ d.to = "sql_reviewer"
            /\ d.msg.status = "SemanticError"
            /\ Contains(d.msg.error_message, "Low confidence")

C3_Witness ==
  /\ hist.last = "sql_generation"
  /\ hist.gen.llm_confidence = 30
  /\ \E d \in pending : d.msg.status = "SemanticError"

\* C4: a reviewer step that retries a SyntaxError adds 1 to
\* syntax_retry_count and leaves semantic_retry_count unchanged, one that
\* retries a SemanticError adds 1 to semantic_retry_count and leaves
\* syntax_retry_count unchanged, and an error is retried whenever its own
\* counter is below its maximum, whatever the other counter is.
C4_Step ==
  LET before == hist'.reviewed.retry_context
      retried == hist'.route # "output"
  IN /\ (hist'.reviewed.status = "SyntaxError" /\ can_retry_syntax(before))
          => retried
     /\ (hist'.reviewed.status = "SemanticError" /\ can_retry_semantic(before))
          => retried
     /\ (hist'.reviewed.status = "SyntaxError" /\ retried) =>
          \A d \in pending' :
             /\ d.msg.retry_context.semantic_retry_count
                  = before.semantic_retry_count
             /\ d.msg.retry_context.syntax_retry_count
                  = before.syntax_retry_count + 1
     /\ (hist'.reviewed.status = "SemanticError" /\ retried) =>
          \A d \in pending' :
             /\ d.msg.retry_context.syntax_retry_count
                  = before.syntax_retry_count
             /\ d.msg.retry_context.semantic_retry_count
                  = before.semantic_retry_count + 1

C4_RetryBudgetsIndependent == [][sql_reviewer => C4_Step]_vars

C4_Witness ==
  /\ hist.last = "sql_reviewer"
  /\ hist.reviewed.status = "SemanticError"
  /\ hist.reviewed.retry_context.syntax_retry_count = 2
  /\ hist.route # "output"
  /\ \E d \in pending : d.msg.retry_context.syntax_retry_count = 2

\* C5: every run whose catalog could be loaded ends with exactly one
\* NL2SQLOutput: never two, and never a finished run without one.
C5_ExactlyOneOutput ==
  /\ Len(outputs) <= 1
  /\ (input.catalog_exists /\ Finished) => Len(outputs) = 1

\* C6: when the query was executed without error and returned zero rows, the
\* message SQL Generation emits has status EmptyResult.
C6_ZeroRowsIsEmptyResult ==
  (/\ hist.last = "sql_generation"
   /\ hist.gen.executed
   /\ hist.gen.rows # NoRows
   /\ hist.gen.rows.rows = 0)
    => \A d \in pending : d.msg.status = "EmptyResult"

\* C7: the reviewer answers a message with status EmptyResult or Timeout
\* with the terminal output: nothing is forwarded, the retry counters in the
\* output are those of the message, and afterwards no SQL-generation or
\* schema-selection step runs.  The decision is the same for every message
\* with one of these statuses, whatever its retry counters.
TerminalStatuses == {"EmptyResult", "Timeout"}

ReviewInputs ==
  { [WorkflowMessage("q", st, [RetryContext EXCEPT
        !.syntax_retry_count = a, !.semantic_retry_count = b])
       EXCEPT !.error_message = <<"Query execution timed out">>] :
      st \in TerminalStatuses, a \in 0..2, b \in 0..2 }

C7_Step ==
  /\ (sql_reviewer /\ hist'.reviewed.status \in TerminalStatuses) =>
        /\ pending' = {}
        /\ Len(outputs') = 1
        /\ outputs'[1].execution_result.syntax_retry_count
             = hist'.reviewed.retry_context.syntax_retry_count
        /\ outputs'[1].execution_result.semantic_retry_count
             = hist'.reviewed.retry_context.semantic_retry_count
  /\ (hist.reviewed.status \in TerminalStatuses) =>
        /\ hist'.gen_attempts = hist.gen_attempts
        /\ hist'.schema_runs = hist.schema_runs
        /\ hist'.reviewed = hist.reviewed
  /\ \A m \in ReviewInputs :
        /\ review(m).target = "output"
        /\ review(m).msg.retry_context = m.retry_context
        /\ review(m).out.execution_result.error_type = m.status

C7_TerminalStatusNeverRetried == [][C7_Step]_vars

C7_Witness ==
  /\ hist.last = "sql_reviewer"
  /\ hist.reviewed.status = "Timeout"
  /\ Len(outputs) = 1
  /\ pending = {}

\* C8: every output of the Aggregator has a non-null reasoning_evaluation
\* and a natural_language_response that is null or a text; for every list of
\* results the parallel steps can deliver (also one without an evaluation)
\* the evaluation is the delivered one or the neutral default, and the
\* response is null exactly when no text was delivered.
EvaluationResults ==
  { Result("evaluate_sql_reasoning", "dict",
           Evaluation("True", 90, "LLM explanation"), NoText),
    Result("evaluate_sql_reasoning", "dict",
           Evaluation("None", 0, "Evaluation failed"), NoText) }

NLResults ==
  { Result("generate_natural_language_response", "None", NoEvaluation, NoText),
    Result("generate_natural_language_response", "str", NoEvaluation,
           <<"LLM answer">>),
    Result("generate_natural_language_response", "str", NoEvaluation,
           <<"Found", "1", "result(s).">>) }

ResultLists ==
  {<<>>} \cup { <<r>> : r \in EvaluationResults \cup NLResults }
  \cup { <<e, n>> : e \in EvaluationResults, n \in NLResults }
  \cup { <<n, e>> : n \in NLResults, e \in EvaluationResults }

AggregatorOutputs ==
  {i \in 1..Len(outputs) :
     outputs[i].emitted_by = "aggregate_success_results"}

C8_AggregatorOutputTotal ==
  /\ \A i \in AggregatorOutputs :
        /\ ~outputs[i].reasoning_evaluation.is_null
        /\ outputs[i].reasoning_evaluation.confidence >= 0
        /\ \/ outputs[i].natural_language_response = NoResponse
           \/ /\ ~outputs[i].natural_language_response.is_null
              /\ outputs[i].natural_language_response.text # NoText
  /\ \A results \in ResultLists :
        LET o == aggregate(results, shared.success_message)
            evals == {results[i].evaluation : i \in
                        {j \in 1..Len(results) : results[j].type = "dict"}}
        IN /\ ~o.reasoning_evaluation.is_null
           /\ IF evals = {} THEN o.reasoning_evaluation = DefaultEvaluation
                            ELSE o.reasoning_evaluation \in evals
           /\ o.natural_language_response.is_null
                <=> \A i \in 1..Len(results) : results[i].type # "str"

C8_Witness ==
  /\ AggregatorOutputs # {}
  /\ \E i \in AggregatorOutputs :
        /\ outputs[i].natural_language_response.is_null
        /\ outputs[i].reasoning_evaluation.is_correct = "None"

\* C9: when the Aggregator has emitted the success output, both parallel
\* steps had delivered their result, each exactly one, in either order.
C9_JoinBeforeAggregate ==
  AggregatorOutputs # {} =>
     /\ Delivered = FanInSources
     /\ Len(fanin) = 2
     /\ \A d \in pending : d.to \notin FanInSources

C9_Witness ==
  /\ AggregatorOutputs # {}
  /\ Len(fanin) = 2
  /\ fanin[1].src = "generate_natural_language_response"
  /\ fanin[2].src = "evaluate_sql_reasoning"

\* C10: after Schema Understanding has run on an input that carries both a
\* pre-selected database and pre-selected tables, no LLM call was made by
\* that step and the message it emits has exactly that database and those
\* tables, with confidence 100.
C10_PreselectedBypass ==
  (/\ hist.last = "schema_understanding"
   /\ Truthy(input.selected_database)
   /\ TruthyList(input.selected_tables))
    => /\ ~hist.schema.llm_called
       /\ \A d \in pending :
            /\ d.msg.database = input.selected_database
            /\ d.msg.selected_tables = input.selected_tables
            /\ d.msg.confidence = 100

\* C11: when query execution raised a database-engine error, the message SQL
\* Generation emits has status SemanticError if the error text contains "no
\* such table", "no such column" or "ambiguous column", and status
\* SyntaxError for every other engine error.
SemanticIndicators == {"no such table", "no such column", "ambiguous column"}

C11_EngineErrorClassification ==
  (/\ hist.last = "sql_generation"
   /\ hist.gen.outcome = "OperationalError")
    => \A d \in pending :
         d.msg.status = IF ContainsAny(hist.gen.engine_text, SemanticIndicators)
                          THEN "SemanticError" ELSE "SyntaxError"

\* C12: when query execution raised an unexpected exception (neither an
\* engine error nor a timeout), the message SQL Generation emits has status
\* SyntaxError.
C12_UnexpectedExceptionIsSyntaxError ==
  (/\ hist.last = "sql_generation"
   /\ hist.gen.outcome = "Exception")
    => /\ pending # {}
       /\ \A d \in pending : d.msg.status = "SyntaxError"

\* C13: when the output follows a run of SyntaxError executions that used up
\* the syntax retry budget, its execution_result has error_type "SQL Syntax
\* Error" and syntax_retry_count 2.
C13_SyntaxExhaustedOutput ==
  (/\ hist.all_syntax
   /\ hist.gen_attempts = RetryContext.max_syntax_retries + 1
   /\ outputs # <<>>)
    => /\ outputs[1].execution_result.error_type = "SQL Syntax Error"
       /\ outputs[1].execution_result.syntax_retry_count = 2

\* C14: every WorkflowMessage a step has emitted carries result_rows only
\* when its status is Success or EmptyResult, and has an error_message
\* exactly when its status is SyntaxError, SemanticError or Timeout.
ErrorStatuses == {"SyntaxError", "SemanticError", "Timeout"}

C14_StatusDeterminesFields ==
  \A d \in pending :
     /\ d.msg.result_rows # NoRows
          => d.msg.status \in {"Success", "EmptyResult"}
     /\ d.msg.error_message # NoText <=> d.msg.status \in ErrorStatuses

C14_Witness ==
  /\ hist.last = "sql_generation"
  /\ \E d \in pending :
        /\ d.msg.status = "Timeout"
        /\ d.msg.error_message # NoText
        /\ d.msg.result_rows = NoRows

\* C15: in every state both retry counters of every message in flight (and
\* of the message the reviewer last saw) lie between 0 and their maximum;
\* the run starts with both at 0; a step emits a message whose counters are
\* those of the message it consumed, except that the reviewer may add 1 to
\* one of them; no step lowers a counter or changes a maximum.
CountersInRange(rc) ==
  /\ 0 <= rc.syntax_retry_count
  /\ rc.syntax_retry_count <= rc.max_syntax_retries
  /\ 0 <= rc.semantic_retry_count
  /\ rc.semantic_retry_count <= rc.max_semantic_retries

C15_Bounds ==
  /\ \A d \in pending : CountersInRange(d.msg.retry_context)
  /\ CountersInRange(hist.reviewed.retry_context)
  /\ CountersInRange(shared.success_message.retry_context)

C15_Step ==
  LET consumed == pending \ pending'
      emitted == pending' \ pending
  IN /\ hist'.last = "initialize_context" =>
          \A e \in emitted : e.msg.retry_context = RetryContext
     /\ \A c \in consumed, e \in emitted :
          LET a == c.msg.retry_context
              b == e.msg.retry_context
          IN /\ b.max_syntax_retries = a.max_syntax_retries
             /\ b.max_semantic_retries = a.max_semantic_retries
             /\ b.syntax_retry_count \in
                  {a.syntax_retry_count, a.syntax_retry_count + 1}
             /\ b.semantic_retry_count \in
                  {a.semantic_retry_count, a.semantic_retry_count + 1}
             /\ b.syntax_retry_count + b.semantic_retry_count
                  <= a.syntax_retry_count + a.semantic_retry_count + 1
             /\ hist'.last # "sql_reviewer" => b = a

C15_RetryCountersMonotone == []C15_Bounds /\ [][C15_Step]_vars

\* Both budgets used up and the counters carried through a regeneration.
C15_Witness ==
  /\ hist.last = "sql_generation"
  /\ \E d \in pending :
        /\ d.msg.retry_context.syntax_retry_count = 2
        /\ d.msg.retry_context.semantic_retry_count = 2

\* C16: a can_retry call for a kind returns true exactly when that kind's
\* counter is strictly below that kind's maximum, whether it is called on
\* the RetryContext or through the WorkflowMessage, and the call leaves
\* both counters and both maxima as they were.
C16_Step ==
  /\ ret'.op \in {"can_retry_syntax", "can_retry_semantic", "message_can_retry"}
       => retry_ctx' = retry_ctx
  /\ call_can_retry_syntax =>
       (ret'.value <=>
          retry_ctx.syntax_retry_count < retry_ctx.max_syntax_retries)
  /\ call_can_retry_semantic =>
       (ret'.value <=>
          retry_ctx.semantic_retry_count < retry_ctx.max_semantic_retries)
  /\ call_message_can_retry("SyntaxError") =>
       (ret'.value <=>
          retry_ctx.syntax_retry_count < retry_ctx.max_syntax_retries)
  /\ call_message_can_retry("SemanticError") =>
       (ret'.value <=>
          retry_ctx.semantic_retry_count < retry_ctx.max_semantic_retries)

C16_CanRetryIffBelowMaximum == [][C16_Step]_vars

\* The boundary: the counter has reached its maximum and the call says no.
C16_Witness ==
  /\ ret.op = "can_retry_syntax"
  /\ ~ret.value
  /\ retry_ctx.syntax_retry_count = retry_ctx.max_syntax_retries
  /\ retry_ctx.max_syntax_retries = 2
  /\ retry_ctx.semantic_retry_count = 0

\* C17: a call of the catalog loader that follows a successful call of it
\* returns the identical object and reads no file; only a call that finds
\* nothing loaded reads the file, once.  This holds for load_m_schema and
\* for load_m_schema_executor.
C17_Step ==
  \A r \in Runs :
     /\ (load_m_schema(r) /\ loader.last.fn = "load_m_schema"
           /\ ~loader.last.raised)
          => /\ ~loader'.last.raised
             /\ loader'.last.returned = loader.last.returned
             /\ loader'.file_reads = loader.file_reads
             /\ heap' = heap
     /\ (load_m_schema_executor(r)
           /\ loader.last_global.fn = "load_m_schema_executor"
           /\ ~loader.last_global.raised)
          => /\ ~loader'.last_global.raised
             /\ loader'.last_global.returned = loader.last_global.returned
             /\ loader'.file_reads = loader.file_reads
             /\ heap' = heap
     /\ (load_m_schema(r) \/ load_m_schema_executor(r))
          => loader'.file_reads <= loader.file_reads + 1

C17_LoadTwiceSameObject == [][C17_Step]_vars

\* Two runs called load_m_schema, got the same object, and the file was
\* read once.
C17_Witness ==
  /\ loader.last.fn = "load_m_schema"
  /\ loader.last.run = 2
  /\ pc[1].via = "load_m_schema"
  /\ pc[1].m_schema # NoObj
  /\ pc[2].m_schema = pc[1].m_schema
  /\ loader.file_reads = 1

\* C18: under every interleaving of workflow runs each catalog cache is
\* populated at most once, and once populated it keeps the same object with
\* the same content, also when the file on disk is regenerated.
C18_Step ==
  /\ lru # NoObj => lru' = lru
  /\ _M_SCHEMA_CACHE # NoObj => _M_SCHEMA_CACHE' = _M_SCHEMA_CACHE
  /\ \A i \in 1..Len(heap) : Len(heap') >= i /\ heap'[i] = heap[i]

C19_UnparseableAborts ==
  (hist.gen.parse_failed /\ hist.last = "sql_reviewer")
    => /\ pending = {}
       /\ Len(outputs) = 1
       /\ ErrorOutputs = {1}
       /\ outputs[1].execution_result.semantic_retry_count
            = hist.reviewed.retry_context.semantic_retry_count

\* C20: when Reasoning Evaluation failed (LLM error or malformed output) it
\* has delivered exactly one result to the fan-in, the neutral evaluation
\* (is_correct null, confidence 0); the run has not failed; until the output
\* exists the remaining step or the Aggregator can run; and the output is
\* the Aggregator's, carrying the neutral evaluation and the rows of the
\* successful execution.
EvaluationsDelivered ==
  {i \in 1..Len(fanin) : fanin[i].src = "evaluate_sql_reasoning"}

C20_EvaluationFailureDegrades ==
  hist.eval \in {"garbage", "llm_error"} =>
     /\ Cardinality(EvaluationsDelivered) = 1
     /\ \A i \in EvaluationsDelivered :
          /\ fanin[i].type = "dict"
          /\ fanin[i].evaluation.is_correct = "None"
          /\ fanin[i].evaluation.confidence = 0
     /\ failed = NoStr
     /\ outputs = <<>> =>
          \/ Inbox("generate_natural_language_response") # {}
          \/ FanInReady
     /\ outputs # <<>> =>
          /\ Len(outputs) = 1
          /\ outputs[1].emitted_by = "aggregate_success_results"
          /\ outputs[1].reasoning_evaluation.is_correct = "None"
          /\ outputs[1].reasoning_evaluation.confidence = 0
          /\ outputs[1].execution_result.rows # NoRows
          /\ outputs[1].execution_result.rows
               = shared.success_message.result_rows
          /\ outputs[1].sql = shared.success_message.sql

C20_Witness ==
  /\ hist.eval = "llm_error"
  /\ Len(outputs) = 1
  /\ outputs[1].emitted_by = "aggregate_success_results"
  /\ outputs[1].execution_result.rows.rows = 1
  /\ outputs[1].reasoning_evaluation.confidence = 0

\* C21: once NL Response Generation has run it has delivered exactly one
\* result: null, without an LLM call, when no natural-language answer was
\* requested or the execution returned no rows; otherwise the LLM's text
\* when the call succeeded and the string "Found N result(s)." with N the
\* number of result rows when it failed.
NLDelivered ==
  {i \in 1..Len(fanin) : fanin[i].src = "generate_natural_language_response"}

C21_NLResponseAlwaysDelivers ==
  hist.nl.outcome # "none" =>
     LET rows == shared.success_message.result_rows
         skip == ~shared.return_natural_language \/ rows = NoRows
                   \/ rows.rows = 0
     IN /\ Cardinality(NLDelivered) = 1
        /\ failed = NoStr
        /\ \A i \in NLDelivered :
             /\ skip => /\ fanin[i].type = "None"
                         /\ ~hist.nl.llm_called
             /\ (~skip /\ hist.nl.outcome = "text") =>
                  /\ fanin[i].type = "str"
                  /\ fanin[i].text = <<"LLM answer">>
             /\ (~skip /\ hist.nl.outcome = "llm_error") =>
                  /\ fanin[i].type = "str"
                  /\ fanin[i].text
                       = <<"Found", ToString(rows.rows), "result(s).">>

C21_Witness ==
  /\ hist.nl.outcome = "llm_error"
  /\ \E i \in NLDelivered : fanin[i].text = <<"Found", "1", "result(s).">>

\* C22: the Aggregator step never raises and yields one output that carries
\* the executed SQL, the database and the result rows of the successful
\* execution; and for every list of parallel results, also one that lacks
\* the evaluation or the response or both, the aggregation raises nothing
\* and its output carries that SQL, database and rows.
C22_AggregatorNeverFails ==
  LET message == shared.success_message
  IN /\ hist.last = "aggregate_success_results" =>
          /\ failed = NoStr
          /\ Len(outputs) = 1
          /\ outputs[1].sql = message.sql
          /\ Truthy(outputs[1].sql)
          /\ outputs[1].database = hist.gen_database
          /\ outputs[1].execution_result.rows = hist.gen.rows
          /\ outputs[1].execution_result.rows # NoRows
     /\ message.status = "Success" =>
          \A results \in ResultLists :
             /\ ~aggregate_raises(results)
             /\ aggregate(results, message).sql = message.sql
             /\ aggregate(results, message).database = message.database
             /\ aggregate(results, message).execution_result.rows
                  = message.result_rows
             /\ "rows" \in aggregate(results, message).execution_result.keys

C22_Witness ==
  /\ hist.last = "aggregate_success_results"
  /\ Len(outputs) = 1
  /\ outputs[1].execution_result.rows = [rows |-> 1, cols |-> 2]
  /\ outputs[1].database = "concert_singer"

\* C23: every output, of the success path and of every error path, has a
\* non-empty SQL text and both retry counts in its execution_result, and
\* every error output also has an error classification.
C23_OutputCarriesDiagnostics ==
  \A i \in 1..Len(outputs) :
     /\ Truthy(outputs[i].sql)
     /\ {"syntax_retry_count", "semantic_retry_count"}
          \subseteq outputs[i].execution_result.keys
     /\ outputs[i].execution_result.syntax_retry_count # NoNum
     /\ outputs[i].execution_result.semantic_retry_count # NoNum
     /\ outputs[i].emitted_by = "sql_reviewer" =>
          /\ "error_type" \in outputs[i].execution_result.keys
          /\ Truthy(outputs[i].execution_result.error_type)

\* C24: the chunks sent are the workflow's events, in their order and
\* without gaps, followed by at most one terminal marker, which is the last
\* chunk; a generator that ran to its end has sent exactly one marker, the
\* completion marker only when every event was forwarded and the workflow
\* did not raise; after a marker nothing more is sent.
Markers == {i \in 1..Len(sse) : sse[i].kind \in {"completed", "error"}}

C24_Stream ==
  /\ Cardinality(Markers) <= 1
  /\ \A i \in Markers : i = Len(sse)
  /\ spc = "done" => Cardinality(Markers) = 1
  /\ spc = "streaming" => Markers = {}
  /\ \A i \in (1..Len(sse)) \ Markers :
       /\ i <= Len(wf_stream.events)
       /\ sse[i].kind = "event"
       /\ sse[i].executor_id = wf_stream.events[i].executor_id
       /\ sse[i].data = "model_dump" <=> wf_stream.events[i].data = "model"
  /\ \A i \in Markers :
       sse[i].kind = "completed" =>
          /\ ~wf_stream.raises
          /\ i = Len(wf_stream.events) + 1

C24_OrderedEventsOneMarker ==
  []C24_Stream /\ [][Markers # {} => sse' = sse]_vars

C24_Witness ==
  /\ spc = "done"
  /\ Len(sse) = 3
  /\ Len(wf_stream.events) = 3
  /\ sse[1].executor_id = "schema_understanding"
  /\ sse[2].executor_id = "sql_generation"
  /\ sse[3].kind = "error"
  /\ wf_stream.events[3].data = "unserialisable"

\* C25: the steps before the fan-out run one at a time: at most one message
\* is waiting for one of them, and none while a parallel step is still to
\* run; SQL Generation acts only when Schema Understanding has stored a
\* SchemaContext under the current schema id; the success handler acts only
\* after an executed attempt whose status is Success.
SequentialSteps ==
  {"schema_understanding", "sql_generation", "sql_reviewer", "handle_success"}

C25_OneActive ==
  /\ Cardinality({d \in pending : d.to \in SequentialSteps}) <= 1
  /\ \A d \in pending : d.to \in SequentialSteps => pending = {d}
  /\ Inbox("sql_generation") # {} =>
       /\ shared.current_schema_id \in 1..Len(schemas)
       /\ schemas[shared.current_schema_id].context_id
            = shared.current_schema_id
  /\ \A d \in Inbox("handle_success") :
       /\ d.msg.status = "Success"
       /\ hist.gen.executed /\ hist.gen.status = "Success"

C25_Step ==
  /\ hist'.gen_attempts > hist.gen_attempts =>
       /\ hist.schema_runs >= 1
       /\ hist.last \in {"schema_understanding", "sql_reviewer"}
       /\ shared.current_schema_id \in 1..Len(schemas)
  /\ (hist'.last = "handle_success" /\ hist.last # "handle_success") =>
       /\ hist.last = "sql_reviewer"
       /\ hist.gen.executed /\ hist.gen.status = "Success"
       /\ hist.exec_calls >= 1

C25_StrictlySequential == []C25_OneActive /\ [][C25_Step]_vars

C25_Witness ==
  /\ hist.last = "handle_success"
  /\ failed = NoStr
  /\ hist.gen_attempts >= 2
  /\ hist.schema_runs = 1
  /\ Len(schemas) = 1

\* C26: a message waiting for SQL Generation finds one stored SchemaContext
\* per semantic retry taken plus the first one, each under its own
\* context_id, the newest being the current one; and a stored SchemaContext
\* never changes.
C26_FreshContext ==
  \A d \in Inbox("sql_generation") :
    /\ Len(schemas) = d.msg.retry_context.semantic_retry_count + 1
    /\ shared.current_schema_id = Len(schemas)
    /\ \A i, j \in 1..Len(schemas) :
         schemas[i].context_id = schemas[j].context_id => i = j

C26_Immutable ==
  /\ Len(schemas') >= Len(schemas)
  /\ \A i \in 1..Len(schemas) : schemas'[i] = schemas[i]

C26_NewSchemaContextPerSemanticRetry ==
  []C26_FreshContext /\ [][C26_Immutable]_vars

\* C27: a parallel step leaves the shared state and the stored schema
\* contexts as they are, what it sends is determined by the success message
\* and its own LLM response alone (not by what the other step has sent),
\* and the aggregator's result is the same for either arrival order.
Swapped(results) == <<results[2], results[1]>>

C27_OrderIrrelevant ==
  (FanInReady /\ Len(fanin) = 2) =>
     /\ aggregate_raises(fanin) <=> aggregate_raises(Swapped(fanin))
     /\ aggregate(fanin, shared.success_message)
          = aggregate(Swapped(fanin), shared.success_message)
     /\ \A i \in 1..Len(outputs) :
          outputs[i] = aggregate(Swapped(fanin), shared.success_message)

C27_Step ==
  fanin' # fanin =>
    /\ shared' = shared
    /\ schemas' = schemas
    /\ Len(fanin') = Len(fanin) + 1
    /\ LET sent == fanin'[Len(fanin')]
       IN \/ /\ sent.src = "evaluate_sql_reasoning"
             /\ \E resp \in EvalLLMResponses :
                  sent = Result("evaluate_sql_reasoning", "dict",
                                evaluation_result(resp), NoText)
          \/ /\ sent.src = "generate_natural_language_response"
             /\ \E resp \in NLLLMResponses :
                  sent = nl_result(shared.success_message, resp)

C27_ParallelStepsIndependent ==
  []C27_OrderIrrelevant /\ [][C27_Step]_vars

C27_Witness ==
  /\ Len(outputs) = 1
  /\ Len(fanin) = 2
  /\ fanin[1].src = "generate_natural_language_response"
  /\ fanin[1].type = "str"
  /\ fanin[2].src = "evaluate_sql_reasoning"
  /\ outputs[1] = aggregate(fanin, shared.success_message)

\* C28: a run makes at most 1 + max_syntax_retries + max_semantic_retries
\* SQL-generation attempts, and once SQL Generation has been attempted the
\* run reaches an output unless an LLM call raises.
MaxAttempts == 1 + MAX_SYNTAX_RETRIES + MAX_SEMANTIC_RETRIES

C28_AttemptsBounded ==
  /\ hist.gen_attempts <= MaxAttempts
  /\ \A d \in pending :
       d.msg.retry_context.syntax_retry_count
         + d.msg.retry_context.semantic_retry_count + 1 >= hist.gen_attempts

C28_RetryLoopsEnd ==
  /\ []C28_AttemptsBounded
  /\ (hist.gen_attempts >= 1) ~> (Len(outputs) = 1 \/ failed = "LLMError")

C28_Witness ==
  /\ hist.gen_attempts = MaxAttempts
  /\ Len(outputs) = 1
  /\ outputs[1].execution_result.syntax_retry_count = MAX_SYNTAX_RETRIES
  /\ outputs[1].execution_result.semantic_retry_count = MAX_SEMANTIC_RETRIES
  /\ ~hist.all_syntax

\* C29: a SyntaxError message waiting for SQL Generation carries the SQL and
\* the engine's error text of the attempt that failed; an attempt uses the
\* syntax-correction prompt exactly when its incoming message has status
\* SyntaxError with non-empty sql and error_message, and the
\* initial-generation prompt for SchemaSelected and SemanticError.
HasFeedback(message) ==
  /\ Truthy(message.sql)
  /\ message.error_message # NoText
  /\ message.error_message # <<>>

InitialGeneration == {"initial", "initial_fallback"}

C29_RetryCarriesFeedback ==
  \A d \in Inbox("sql_generation") :
    d.msg.status = "SyntaxError" =>
      /\ HasFeedback(d.msg)
      /\ hist.gen.executed
      /\ hist.gen.outcome = "OperationalError"
      /\ d.msg.sql = shared.current_sql_response.sql
      /\ d.msg.error_message = hist.gen.engine_text

C29_Step ==
  hist'.gen_attempts > hist.gen_attempts =>
    \A d \in Inbox("sql_generation") :
      /\ hist'.gen.prompt = "syntax_correction"
           <=> (d.msg.status = "SyntaxError" /\ HasFeedback(d.msg))
      /\ d.msg.status \in {"SchemaSelected", "SemanticError"}
           => hist'.gen.prompt \in InitialGeneration
      /\ hist'.gen.prompt \in InitialGeneration \cup {"syntax_correction"}

C29_SyntaxCorrectionStrategy ==
  []C29_RetryCarriesFeedback /\ [][C29_Step]_vars

C29_Witness ==
  /\ hist.last = "sql_generation"
  /\ hist.gen_attempts = 3
  /\ hist.gen.prompt = "syntax_correction"
  /\ hist.reviewed.status = "SyntaxError"
  /\ hist.reviewed.retry_context.semantic_retry_count = 1

\* C30: a SchemaSelected message names a database and a schema_id under
\* which a SchemaContext of that database is stored; when the response of
\* the schema-selection LLM yields no database, Schema Understanding sends
\* nothing and stores nothing.
C30_SelectedIsStored ==
  \A d \in pending :
    d.msg.status = "SchemaSelected" =>
      /\ d.msg.database # ""
      /\ d.msg.schema_id \in 1..Len(schemas)
      /\ schemas[d.msg.schema_id].context_id = d.msg.schema_id
      /\ schemas[d.msg.schema_id].database = d.msg.database

C30_Step ==
  \A resp \in SchemaLLMResponses :
    (/\ schema_understanding(resp)
     /\ ~parse_schema_response(resp).ok
          \/ parse_schema_response(resp).database = "")
      => /\ pending' = {}
         /\ schemas' = schemas
         /\ shared' = shared
         /\ failed' # NoStr

C30_SchemaSelectedHasStoredContext ==
  []C30_SelectedIsStored /\ [][C30_Step]_vars

C30_Witness ==
  /\ hist.last = "schema_understanding"
  /\ failed = NoStr
  /\ \E d \in pending :
       /\ d.msg.status = "SchemaSelected"
       /\ d.msg.database = "pets"
       /\ d.msg.selected_tables = <<>>
       /\ schemas[d.msg.schema_id].database = "pets"

\* C31: the catalog view Schema Understanding puts in the prompt lists table
\* names only, for exactly the pre-selected database when the request has
\* one and for every database of the catalog otherwise.
C31_CatalogViewTablesOnly ==
  hist.schema_runs >= 1 =>
    /\ hist.schema.catalog_view.view = "tables_only"
    /\ hist.schema.catalog_view.dbs =
         IF Truthy(input.selected_database)
           THEN {input.selected_database}
           ELSE DOMAIN M_SCHEMA

\* C32: when the request pre-selects a database of the catalog, every
\* SchemaSelected message, every stored SchemaContext and every executed
\* query is for that database, whatever the LLM answered.
C32_PreselectedDatabaseKept ==
  input.selected_database \in DOMAIN M_SCHEMA =>
    /\ \A d \in pending :
         d.msg.status = "SchemaSelected"
           => d.msg.database = input.selected_database
    /\ \A i \in 1..Len(schemas) :
         schemas[i].database = input.selected_database
    /\ hist.exec_calls >= 1 => hist.gen_database = input.selected_database

\* C33: only a message of status Success waits for the success handler
\* after the reviewer, or for a parallel step; the reviewer routes to the
\* success handler exactly the Success messages; and the success handler
\* handed any other status raises, writes no shared state and dispatches
\* nothing.
FanOutSteps == {"evaluate_sql_reasoning", "generate_natural_language_response"}

C33_OnlySuccessFansOut ==
  /\ \A d \in pending :
       (d.to \in FanOutSteps \/ (d.to = "handle_success"
                                   /\ hist.last = "sql_reviewer"))
         => d.msg.status = "Success"
  /\ fanin # <<>> => shared.success_message.status = "Success"

C33_Step ==
  /\ (hist'.last = "sql_reviewer" /\ hist.last # "sql_reviewer") =>
       (hist'.route = "handle_success" <=> hist'.reviewed.status = "Success")
  /\ (hist'.last = "handle_success" /\ hist.last # "handle_success") =>
       \A d \in Inbox("handle_success") :
         d.msg.status # "Success" =>
           /\ failed' = "RuntimeError"
           /\ shared' = shared
           /\ pending' = {}
           /\ fanin' = fanin

C33_FanOutOnlyOnSuccess == []C33_OnlySuccessFansOut /\ [][C33_Step]_vars

C33_Witness ==
  /\ hist.last = "handle_success"
  /\ failed = "RuntimeError"
  /\ pending = {}
  /\ shared.success_message.status = "Init"

\* C34 (as stated): in execute_sql the query is executed at most
\* max_retries + 1 times, error_count never exceeds max_retries, every
\* failed attempt but the last is followed by one correction whose SQL is
\* the next one executed, and the step ends only by forwarding the state
\* with execution_result set or by raising "Max retries exceeded".
C34_Bounds ==
  /\ Len(seq_log.executed) <= wstate.max_retries + 1
  /\ wstate.error_count <= wstate.max_retries
  /\ Len(seq_log.corrected) <= wstate.error_count
  /\ \A k \in 1..Len(seq_log.corrected) :
       IF k + 1 <= Len(seq_log.executed)
         THEN seq_log.executed[k + 1] = seq_log.corrected[k]
         ELSE wstate.current_sql = seq_log.corrected[k]
  /\ spos # "returned"

C34_Forwarded ==
  /\ spos \in {"generate_nl_response", "done"}
  /\ wstate.execution_result # NoRows
  /\ seq_log.raised = NoStr

C34_ExecuteSqlRetries ==
  /\ C34_Bounds
  /\ Len(seq_log.corrected) = wstate.error_count
  /\ spos # "execute_sql" =>
       \/ C34_Forwarded
       \/ spos = "raised" /\ seq_log.raised = "Max retries exceeded"

\* C34 (amended): as above, and the step may also end by re-raising the
\* exception of the correction call; then error_count counts the failed
\* attempt although no corrected SQL was obtained for it.
C34_ExecuteSqlRetriesAmended ==
  /\ C34_Bounds
  /\ Len(seq_log.corrected) =
       wstate.error_count
         - (IF seq_log.raised = "correction failed" THEN 1 ELSE 0)
  /\ spos # "execute_sql" =>
       \/ C34_Forwarded
       \/ /\ spos = "raised"
          /\ seq_log.raised = "Max retries exceeded"
          /\ Len(seq_log.executed) = wstate.max_retries + 1
          /\ wstate.error_count = wstate.max_retries
       \/ /\ spos = "raised"
          /\ seq_log.raised = "correction failed"
          /\ wstate.execution_result = NoRows

C34_Witness ==
  /\ spos = "raised"
  /\ seq_log.raised = "Max retries exceeded"
  /\ wstate.max_retries = 2
  /\ Len(seq_log.executed) = 3
  /\ seq_log.executed[2] = "SELECT b"
  /\ seq_log.executed[3] = "SELECT c"

\* C35: in the sequential workflow nothing is yielded before the final
\* step has run; once it has run after a successful execution there is
\* exactly one output, on each of its three paths, and the output has the
\* keys sql, execution_result and database with the values of the state.
C35_OneOutputWithBaseKeys ==
  /\ spos # "done" => seq_outputs = <<>>
  /\ spos = "done" =>
       /\ Len(seq_outputs) = 1
       /\ {"sql", "execution_result", "database"} \subseteq seq_outputs[1].keys
       /\ seq_outputs[1].sql = wstate.current_sql
       /\ seq_outputs[1].sql = seq_log.executed[Len(seq_log.executed)]
       /\ seq_outputs[1].execution_result = wstate.execution_result
       /\ seq_outputs[1].execution_result # NoRows
       /\ seq_outputs[1].database = wstate.db_name
       /\ ~wstate.return_natural_language =>
            seq_outputs[1].keys = {"sql", "execution_result", "database"}
       /\ wstate.return_natural_language =>
            \/ "natural_language_response" \in seq_outputs[1].keys
            \/ "error" \in seq_outputs[1].keys

C35_Witness ==
  /\ spos = "done"
  /\ wstate.return_natural_language
  /\ "error" \in seq_outputs[1].keys
  /\ wstate.error_count = 1

C37_MessageSchema ==
  \A d \in Inbox("sql_generation") :
    /\ d.msg.schema_id = shared.current_schema_id
    /\ d.msg.schema_id \in 1..Len(schemas)
    /\ d.msg.database = schemas[d.msg.schema_id].database

C37_Step ==
  (hist'.gen_attempts > hist.gen_attempts /\ hist'.gen.executed) =>
    \A d \in Inbox("sql_generation") :
      hist'.gen_database = schemas[d.msg.schema_id].database

C37_SchemaIdIsCurrent == []C37_MessageSchema /\ [][C37_Step]_vars

C37_Witness ==
  /\ hist.last = "sql_generation"
  /\ hist.gen_attempts = 2
  /\ hist.gen.executed
  /\ hist.reviewed.status = "SyntaxError"
  /\ \E d \in Inbox("sql_reviewer") :
       /\ d.msg.schema_id = shared.current_schema_id
       /\ d.msg.database = "pets"

\* C38: when the LLM names a database for which no schema can be fetched,
\* Schema Understanding fails without sending a message, without storing a
\* SchemaContext and without changing the current schema id; so every
\* stored SchemaContext is for a known database.
C38_StoredAreKnown ==
  /\ \A i \in 1..Len(schemas) : schemas[i].database \in SpiderDatabases
  /\ (hist.last = "schema_understanding"
        /\ hist.schema.answer \notin SpiderDatabases) =>
       /\ failed # NoStr
       /\ pending = {}
       /\ schemas = <<>>
       /\ shared.current_schema_id = NoId

C38_Step ==
  \A resp \in SchemaLLMResponses :
    (/\ schema_understanding(resp)
     /\ parse_schema_response(resp).ok
     /\ parse_schema_response(resp).database # ""
     /\ parse_schema_response(resp).database \notin SpiderDatabases)
      => /\ failed' = "ValueError"
         /\ pending' = {}
         /\ schemas' = schemas
         /\ shared' = shared

C38_UnknownDatabaseLeavesStateUnchanged ==
  []C38_StoredAreKnown /\ [][C38_Step]_vars

C38_Witness ==
  /\ hist.last = "schema_understanding"
  /\ hist.schema.answer = "ghost_db"
  /\ failed = "ValueError"
  /\ schemas = <<>>
  /\ shared.current_schema_id = NoId
  /\ shared.initialized

\* C39: an SQL-generation response whose confidence is 50 or more, the
\* regex-fallback response with its assigned confidence 50 included, is
\* executed and never reported as "Low confidence"; a "Low confidence"
\* message is sent only for a confidence below 50.
C39_GateStrictlyBelowFifty ==
  hist.last = "sql_generation" =>
    /\ (hist.gen.llm_confidence # NoNum /\ hist.gen.llm_confidence >= 50) =>
         /\ hist.gen.executed
         /\ hist.gen.outcome # "none"
         /\ \A d \in pending :
              ~Contains(d.msg.error_message, "Low confidence")
    /\ (failed = NoStr /\ ~hist.gen.parse_failed
          /\ shared.current_sql_response.reasoning = "partial response") =>
         /\ hist.gen.llm_confidence = 50
         /\ hist.gen.executed
    /\ \A d \in pending :
         Contains(d.msg.error_message, "Low confidence") =>
           /\ hist.gen.llm_confidence < 50
           /\ ~hist.gen.executed

C39_Witness ==
  /\ hist.last = "sql_generation"
  /\ shared.current_sql_response.reasoning = "partial response"
  /\ shared.current_sql_response.confidence = 50
  /\ hist.gen.llm_confidence = 50
  /\ hist.gen.executed
  /\ hist.gen.outcome = "rows"
  /\ \E d \in pending : d.msg.status = "Success"

\* C40: for every client the requests allowed within any window of
\* WindowSize ticks number at most requests_per_minute; a denied call
\* records no timestamp; an allowed call returns requests_per_minute minus
\* the requests already in the window minus 1; a call by one client leaves
\* every other client's timestamps as they are.
AllowedIn(client_ip, from) ==
  Cardinality({i \in 1..Len(rl_allowed[client_ip]) :
                 /\ from <= rl_allowed[client_ip][i]
                 /\ rl_allowed[client_ip][i] < from + WindowSize})

InWindowNow(client_ip) ==
  Cardinality({i \in 1..Len(rl_allowed[client_ip]) :
                 rl_now - rl_allowed[client_ip][i] < WindowSize})

C40_WindowBound ==
  /\ \A c \in Clients, from \in 0..MaxTime :
       AllowedIn(c, from) <= rl_limiter.requests_per_minute
  /\ rl_ret.is_allowed =>
       /\ rl_ret.remaining
            = rl_limiter.requests_per_minute - rl_ret.request_count - 1
       /\ rl_ret.remaining >= 0
  /\ (~rl_ret.is_allowed /\ rl_ret.client_ip # NoStr) => rl_ret.remaining = 0

C40_Step ==
  \A c \in Clients :
    is_allowed(c) =>
      /\ \A other \in Clients \ {c} :
           /\ rl_limiter'.requests[other] = rl_limiter.requests[other]
           /\ rl_allowed'[other] = rl_allowed[other]
      /\ rl_ret'.request_count = InWindowNow(c)
      /\ rl_ret'.is_allowed <=>
           InWindowNow(c) < rl_limiter.requests_per_minute
      /\ ~rl_ret'.is_allowed =>
           /\ rl_allowed'[c] = rl_allowed[c]
           /\ Len(rl_limiter'.requests[c]) = InWindowNow(c)
      /\ rl_ret'.is_allowed =>
           /\ rl_allowed'[c] = Append(rl_allowed[c], rl_now)
           /\ Len(rl_limiter'.requests[c]) = InWindowNow(c) + 1

C40_RateLimit == []C40_WindowBound /\ [][C40_Step]_vars

C40_Witness ==
  /\ rl_limiter.requests_per_minute = 2
  /\ rl_allowed["10.0.0.1"] = <<0, 0, 2>>
  /\ rl_limiter.requests["10.0.0.1"] = <<2>>
  /\ rl_ret = [client_ip |-> "10.0.0.1", is_allowed |-> TRUE,
               remaining |-> 1, request_count |-> 0]
  /\ Len(rl_allowed["10.0.0.2"]) = 1
====
